---- MODULE Spec2Model ----
(***************************************************************************)
(* Strategic Conquest: the turn and combat engine (game/state.py), the     *)
(* board registry and the map generator (game/board.py), the army entity   *)
(* (game/army.py) and the saved games (utils/serialization.py).            *)
(*                                                                         *)
(* Armies are entities: an army id stands for one Python object, and       *)
(* army[id] holds its fields.  The board registry and the rosters hold     *)
(* ids.  Python's `in` and list.remove compare by identity or by dataclass *)
(* equality of all eight fields, which ListIndex reproduces.               *)
(***************************************************************************)
EXTENDS Integers, Sequences, FiniteSets, TLC

VARIABLES army, armies_by_position, players, tiles, config,
          current_player_index, turn_number, game_over, winner, last, desync_left, restarts,
          loaded, map_board, clump

vars == <<army, armies_by_position, players, tiles, config,
          current_player_index, turn_number, game_over, winner, last, desync_left, restarts,
          loaded, map_board, clump>>

(***************************************************************************)
(* Bounds of the model                                                     *)
(***************************************************************************)
BoardWidth == 5
BoardHeight == 5
MaxPlayers == 2
MaxArmies == 3
MaxTurn == 1
MaxScore == 2
MaxDesyncSteps == 0
TurnPlayers == 3
RestartPlayers == 1
MaxRestarts == 2
CampaignPlayers == 1
CampaignDesyncSteps == 5
LastStandDesyncSteps == 2
\* generate_random_map: the forest and mountain tiles asked for, the rivers, the
\* changes of course of one river, the values drawn for a terrain coordinate
ForestTiles == 2
MountainTiles == 1
RiverCount == 1
MaxBends == 0
DrawLow == 2
DrawHigh == 3
MaxGenerations == 1
\* _generate_clumped_terrain followed draw by draw: the board it runs on and the
\* largest count asked for
ClumpWidth == 2
ClumpHeight == 2
MaxClumpCount == 4

(***************************************************************************)
(* Configuration (config.yaml, read by GameState.__init__).  Rates are     *)
(* fractions num/rate_den with rate_den a power of two, so that the float  *)
(* products of the code are exact.                                         *)
(***************************************************************************)
SmallConfig ==
    [starting_army_size |-> 3, starting_food |-> 2, turn_limit |-> 1,
     movement_tiers |-> << [min |-> 1, max |-> 1, speed |-> 1],
                           [min |-> 2, max |-> 100, speed |-> 3] >>,
     movement_general_bonus |-> 1,
     consumption_combat |-> 4, consumption_moving |-> 3,
     consumption_stationary |-> 1,
     fort_food_generation |-> 1,
     rate_den |-> 4, base_attrition_num |-> 2, combat_general_bonus_num |-> 1,
     fort_control |-> 1, elimination_factor_num |-> 6]

\* three starting armies of the larger configuration sum to more than StrengthCap
LargeConfig == [SmallConfig EXCEPT !.starting_army_size = 34, !.starting_food = 1]

\* one army of full strength, food for two splits
FullConfig == [SmallConfig EXCEPT !.starting_army_size = 100, !.starting_food = 3]

\* armies with food to reach a fort and live on it, and no points for a fort held
QuietConfig == [SmallConfig EXCEPT !.fort_control = 0, !.starting_food = 5]

\* armies fed for a march to another headquarters, a split taking MeleeSplitFood
MeleeConfig == [SmallConfig EXCEPT !.starting_food = 20, !.turn_limit = 2]
MeleeSplitFood == 6

\* a game of three rounds
RoundsConfig == [SmallConfig EXCEPT !.turn_limit = 3]

\* base_attrition 0.1 and general_bonus 0.05
AttritionExample ==
    [SmallConfig EXCEPT !.rate_den = 20, !.base_attrition_num = 2,
                        !.combat_general_bonus_num = 1]

StrengthCap == 100
\* main.py: Board(width=20, height=20)
MapWidth == 20
MapHeight == 20
FortCount == 5
RegionMargin == 2

NoPlayer == -1

(***************************************************************************)
(* Arithmetic helpers                                                      *)
(***************************************************************************)
Abs(n) == IF n < 0 THEN -n ELSE n
Min(a, b) == IF a < b THEN a ELSE b
Max(a, b) == IF a > b THEN a ELSE b
\* Python int(): truncation toward zero of n/d
TruncDiv(n, d) == IF n >= 0 THEN n \div d ELSE -((-n) \div d)
Manhattan(p, q) == Abs(p[1] - q[1]) + Abs(p[2] - q[2])
Range(s) == {s[i] : i \in 1..Len(s)}

RECURSIVE CeilSqrtFrom(_, _)
CeilSqrtFrom(n, k) == IF k * k >= n THEN k ELSE CeilSqrtFrom(n, k + 1)
CeilSqrt(n) == CeilSqrtFrom(n, 0)

(***************************************************************************)
(* Army                                                                    *)
(***************************************************************************)
\* Army(...) followed by __post_init__: strength clamped to [0,100], food to >= 0
NewArmy(x, y, strength, food, has_general, player_id) ==
    [x |-> x, y |-> y,
     strength |-> Max(0, Min(StrengthCap, strength)),
     food |-> Max(0, food),
     has_general |-> has_general,
     player_id |-> player_id,
     moved_this_turn |-> FALSE,
     fought_this_turn |-> FALSE]

PosOf(a) == <<a.x, a.y>>

\* index of the first element that list.remove(a) / `a in lst` matches, 0 if none
ListIndex(lst, a, arm) ==
    LET S == {i \in 1..Len(lst) : lst[i] = a \/ arm[lst[i]] = arm[a]}
    IN  IF S = {} THEN 0 ELSE CHOOSE i \in S : \A j \in S : i <= j

ListRemove(lst, a, arm) ==
    LET i == ListIndex(lst, a, arm)
    IN  IF i = 0 THEN lst
        ELSE SubSeq(lst, 1, i - 1) \o SubSeq(lst, i + 1, Len(lst))

(***************************************************************************)
(* Board                                                                   *)
(***************************************************************************)
Positions == (0..(BoardWidth - 1)) \X (0..(BoardHeight - 1))

IsValidPosition(p) ==
    /\ 0 <= p[1] /\ p[1] < BoardWidth
    /\ 0 <= p[2] /\ p[2] < BoardHeight

GetArmiesAt(reg, p) == IF p \in DOMAIN reg THEN reg[p] ELSE << >>

BoardAddArmy(reg, arm, a) ==
    LET pos == PosOf(arm[a])
    IN  IF pos \notin DOMAIN reg
        THEN [q \in DOMAIN reg \cup {pos} |-> IF q = pos THEN <<a>> ELSE reg[q]]
        ELSE [reg EXCEPT ![pos] = Append(@, a)]

\* drop a (by identity or equality) from the list under key pos; delete an emptied key
RemoveAtKey(reg, arm, a, pos) ==
    IF pos \in DOMAIN reg /\ ListIndex(reg[pos], a, arm) # 0
    THEN LET rest == ListRemove(reg[pos], a, arm)
         IN  IF rest = << >>
             THEN [q \in DOMAIN reg \ {pos} |-> reg[q]]
             ELSE [reg EXCEPT ![pos] = rest]
    ELSE reg

BoardRemoveArmy(reg, arm, a) == RemoveAtKey(reg, arm, a, PosOf(arm[a]))

BoardMoveArmy(reg, arm, a, old_pos, new_pos) ==
    LET r1 == RemoveAtKey(reg, arm, a, old_pos)
    IN  IF new_pos \notin DOMAIN r1
        THEN [q \in DOMAIN r1 \cup {new_pos} |-> IF q = new_pos THEN <<a>> ELSE r1[q]]
        ELSE [r1 EXCEPT ![new_pos] = Append(@, a)]

\* _generate_distributed_positions: the candidates for one coordinate of a region
RegionCoord(start, end) ==
    IF end - start > 2 * RegionMargin
    THEN (start + RegionMargin)..(end - RegionMargin - 1)
    ELSE {(start + end) \div 2}

\* the first `count` regions of the grid, in the order the double loop makes them
FortRegionsOn(width, height, count) ==
    IF count <= 1
    THEN << [xs |-> 0, ys |-> 0, xe |-> width, ye |-> height] >>
    ELSE LET g == CeilSqrt(count)
             rw == width \div g
             rh == height \div g
         IN  [k \in 1..count |->
                LET i == (k - 1) \div g
                    j == (k - 1) % g
                IN  [xs |-> i * rw, ys |-> j * rh,
                     xe |-> Min((i + 1) * rw, width),
                     ye |-> Min((j + 1) * rh, height)]]

FortRegions(count) == FortRegionsOn(BoardWidth, BoardHeight, count)

\* the fort layouts generate_random_map can produce (forest, mountain and river
\* passes never overwrite a fort and have no effect on the engine)
RECURSIVE FortLayoutsUpTo(_, _)
FortLayoutsUpTo(regs, k) ==
    IF k = 0 THEN {<< >>}
    ELSE {Append(f, <<x, y>>) :
            f \in FortLayoutsUpTo(regs, k - 1),
            x \in RegionCoord(regs[k].xs, regs[k].xe),
            y \in RegionCoord(regs[k].ys, regs[k].ye)}

FortLayouts == FortLayoutsUpTo(FortRegions(FortCount), FortCount)

GeneratedTiles(forts) ==
    [p \in Positions |->
        [type |-> IF p \in Range(forts) THEN "FORT" ELSE "PLAIN",
         player_id |-> NoPlayer]]

(***************************************************************************)
(* Board.generate_random_map on the board of main.py                       *)
(* Every random draw is an input.  The draws of the fort positions are all *)
(* followed; those of the terrain passes are taken from bounded sets.      *)
(***************************************************************************)
MapPositions == (0..(MapWidth - 1)) \X (0..(MapHeight - 1))

\* _initialize_board: every tile plain (the map is kept as the type of each tile)
InitializeBoard == [p \in MapPositions |-> "PLAIN"]

\* Board(width, height), generate_random_map not called yet
NewBoard == [tiles |-> InitializeBoard, fort_positions |-> << >>, generations |-> 0]

SetTileType(t, p, tile_type) == [t EXCEPT ![p] = tile_type]

\* set_tile_type for each position of a list, in order
RECURSIVE SetTileTypes(_, _, _)
SetTileTypes(t, lst, tile_type) ==
    IF lst = << >> THEN t
    ELSE SetTileTypes(SetTileType(t, Head(lst), tile_type), Tail(lst), tile_type)

\* set_tile_type for each position of a set: the order makes no difference
RECURSIVE SetTileTypesOfSet(_, _, _)
SetTileTypesOfSet(t, positions, tile_type) ==
    IF positions = {} THEN t
    ELSE LET p == CHOOSE q \in positions : TRUE
         IN  SetTileTypesOfSet(SetTileType(t, p, tile_type), positions \ {p}, tile_type)

GetAdjacentPositions(p) ==
    {q \in {<<p[1] - 1, p[2]>>, <<p[1] + 1, p[2]>>, <<p[1], p[2] - 1>>, <<p[1], p[2] + 1>>} :
        q \in MapPositions}

\* the values random.randint gives for a terrain coordinate, within lo..hi
TerrainDraws(lo, hi) == {d \in DrawLow..DrawHigh : lo <= d /\ d <= hi}

\* int(width * height * percentage), the percentage being num / PercentDen
PercentDen == MapWidth * MapHeight
TerrainCount(num) == TruncDiv(MapWidth * MapHeight * num, PercentDen)

\* max(1, int(count * (1 - clump_factor))), clump_factor in tenths
ClumpDen == 10
SeedCount(count, clump_factor) ==
    Max(1, TruncDiv(count * (ClumpDen - clump_factor), ClumpDen))

\* the seed loop: a draw on a fort, a headquarters or a position already drawn
\* leaves the set as it is and the loop draws again
RECURSIVE SeedSets(_, _, _)
SeedSets(t, positions, seed_count) ==
    IF Cardinality(positions) >= seed_count THEN {positions}
    ELSE UNION {SeedSets(t, positions \cup {<<x, y>>}, seed_count) :
                    <<x, y>> \in {d \in TerrainDraws(0, MapWidth - 1)
                                            \X TerrainDraws(0, MapHeight - 1) :
                                    /\ t[d] \notin {"HEADQUARTERS", "FORT"}
                                    /\ d \notin positions}}

\* the valid_adjacent list of one member of the set
ValidAdjacent(t, positions, seed, tile_type) ==
    {a \in GetAdjacentPositions(seed) :
        /\ a \notin positions
        /\ t[a] \notin {"HEADQUARTERS", "FORT", tile_type}}

\* the growth loop: a member without valid neighbours leaves the set as it is
RECURSIVE GrowSets(_, _, _, _)
GrowSets(t, positions, count, tile_type) ==
    IF Cardinality(positions) >= count \/ positions = {} THEN {positions}
    ELSE UNION {GrowSets(t, positions \cup {a}, count, tile_type) :
                    a \in UNION {ValidAdjacent(t, positions, seed, tile_type) :
                                    seed \in positions}}

\* _generate_clumped_terrain: the sets `positions` it can end with, each of
\* which it writes with set_tile_type
GenerateClumpedTerrain(t, count, tile_type, clump_factor) ==
    IF count <= 0 THEN {{}}
    ELSE UNION {GrowSets(t, seeds, count, tile_type) :
                    seeds \in SeedSets(t, {}, SeedCount(count, clump_factor))}

\* the river changes course where random.random() < 0.2: bends[k] is the change
\* drawn after the k-th tile, 0 for none
RECURSIVE BendPlansUpTo(_, _)
BendPlansUpTo(length, n) ==
    IF n <= 0 THEN {[k \in 1..length |-> 0]}
    ELSE LET fewer == BendPlansUpTo(length, n - 1)
         IN  fewer \cup {[b EXCEPT ![k] = d] :
                            b \in fewer, k \in TerrainDraws(1, length), d \in {-1, 1}}

\* the while loop of _generate_river from the k-th tile on: `along` runs across
\* the map, `across` is the row (or column) the river is in
RECURSIVE RiverTiles(_, _, _, _, _, _, _)
RiverTiles(along, across, forward, length, breadth, bends, k) ==
    IF ~(0 <= along /\ along < length) THEN << >>
    ELSE LET new == across + bends[k]
             next == IF bends[k] # 0 /\ 1 <= new /\ new < breadth - 1
                     THEN new ELSE across
         IN  <<<<along, across>>>>
                \o RiverTiles(IF forward THEN along + 1 ELSE along - 1, next,
                              forward, length, breadth, bends, k + 1)

\* SetRiverTiles without the test of the tile's type
RECURSIVE SetRiverTiles_OverForts(_, _)
SetRiverTiles_OverForts(t, river_tiles) ==
    IF river_tiles = << >> THEN t
    ELSE SetRiverTiles_OverForts(SetTileType(t, Head(river_tiles), "RIVER"),
                                 Tail(river_tiles))

\* river tiles are written unless the tile is a headquarters or a fort
RECURSIVE SetRiverTiles(_, _)
SetRiverTiles(t, river_tiles) ==
    IF river_tiles = << >> THEN t
    ELSE SetRiverTiles(IF t[Head(river_tiles)] \notin {"HEADQUARTERS", "FORT"}
                       THEN SetTileType(t, Head(river_tiles), "RIVER")
                       ELSE t,
                       Tail(river_tiles))

\* _generate_river: the lists river_tiles it can build
GenerateRiver ==
    {[k \in 1..Len(path) |-> <<path[k][1], path[k][2]>>] :
        path \in {RiverTiles(IF from_start THEN 0 ELSE MapWidth - 1, y, from_start,
                             MapWidth, MapHeight, bends, 1) :
                    from_start \in BOOLEAN,
                    y \in TerrainDraws(2, MapHeight - 3),
                    bends \in BendPlansUpTo(MapWidth, MaxBends)}}
    \cup
    {[k \in 1..Len(path) |-> <<path[k][2], path[k][1]>>] :
        path \in {RiverTiles(IF from_start THEN 0 ELSE MapHeight - 1, x, from_start,
                             MapHeight, MapWidth, bends, 1) :
                    from_start \in BOOLEAN,
                    x \in TerrainDraws(2, MapWidth - 3),
                    bends \in BendPlansUpTo(MapHeight, MaxBends)}}

\* for _ in range(river_count): _generate_river(), the rivers in order
RECURSIVE GenerateRivers(_)
GenerateRivers(river_count) ==
    IF river_count <= 0 THEN {<< >>}
    ELSE {<<first>> \o rest : first \in GenerateRiver,
                              rest \in GenerateRivers(river_count - 1)}

RECURSIVE SetRivers(_, _)
SetRivers(t, rivers) ==
    IF rivers = << >> THEN t
    ELSE SetRivers(SetRiverTiles(t, Head(rivers)), Tail(rivers))

\* the fort positions _generate_distributed_positions can return on the map
MapFortLayouts(fort_count) ==
    FortLayoutsUpTo(FortRegionsOn(MapWidth, MapHeight, fort_count), fort_count)

(***************************************************************************)
(* GameState construction                                                  *)
(***************************************************************************)
HeadquartersPositions ==
    << <<1, 1>>,
       <<BoardWidth - 2, BoardHeight - 2>>,
       <<1, BoardHeight - 2>>,
       <<BoardWidth - 2, 1>> >>

Live(reg, pl) ==
    UNION {Range(reg[p]) : p \in DOMAIN reg}
        \cup UNION {Range(pl[i].armies) : i \in DOMAIN pl}

\* entities are numbered 1..k, so the next unused id is k + 1
FreshId(arm) == Cardinality(DOMAIN arm) + 1

Extend(arm, id, rec) == [i \in DOMAIN arm \cup {id} |-> IF i = id THEN rec ELSE arm[i]]

\* the entities some index still references, each once: roster members in roster
\* order, player by player, then registry-only entities in scan order
RECURSIVE RosterOrder(_, _)
RosterOrder(pl, i) ==
    IF i \notin DOMAIN pl THEN << >> ELSE pl[i].armies \o RosterOrder(pl, i + 1)

RECURSIVE RegistryOrder(_, _)
RegistryOrder(reg, k) ==
    IF k >= BoardWidth * BoardHeight THEN << >>
    ELSE GetArmiesAt(reg, <<k \div BoardHeight, k % BoardHeight>>)
            \o RegistryOrder(reg, k + 1)

\* the number of entries of the registry (an entity can be listed more than once)
RegistrySize(reg) == Len(RegistryOrder(reg, 0))

RECURSIVE Distinct(_, _)
Distinct(s, seen) ==
    IF s = << >> THEN << >>
    ELSE IF Head(s) \in seen THEN Distinct(Tail(s), seen)
         ELSE <<Head(s)>> \o Distinct(Tail(s), seen \cup {Head(s)})

\* Object identity carries no information beyond distinctness, so after every
\* operation the surviving entities are renamed 1..k in reference order and the
\* unreferenced ones are dropped.
Collect(arm, reg, pl) ==
    LET ord == Distinct(RosterOrder(pl, 0) \o RegistryOrder(reg, 0), {})
    IN  [k \in 1..Len(ord) |-> arm[ord[k]]]

Rename(arm, reg, pl) ==
    LET ord == Distinct(RosterOrder(pl, 0) \o RegistryOrder(reg, 0), {})
    IN  [i \in Range(ord) |-> CHOOSE k \in 1..Len(ord) : ord[k] = i]

RenameList(lst, ren) == [k \in 1..Len(lst) |-> ren[lst[k]]]

\* the new name of entity a, 0 when nothing references it any more
NewId(ren, a) == IF a \in DOMAIN ren THEN ren[a] ELSE 0

\* _setup_game, players i..n-1: headquarters tile, starting army, roster, registry
RECURSIVE SetupGame(_, _, _, _)
SetupGame(i, n, cfg, w) ==
    IF i >= n THEN w
    ELSE LET hq == HeadquartersPositions[i + 1]
             id == FreshId(w.army)
             arm1 == Extend(w.army, id,
                        NewArmy(hq[1], hq[2], cfg.starting_army_size, cfg.starting_food, TRUE, i))
         IN  SetupGame(i + 1, n, cfg,
                [army |-> arm1,
                 reg |-> BoardAddArmy(w.reg, arm1, id),
                 players |-> [w.players EXCEPT
                                ![i].headquarters_position = hq,
                                ![i].armies = Append(@, id)],
                 tiles |-> [w.tiles EXCEPT ![hq].type = "HEADQUARTERS"]])

NewPlayers(n) ==
    [i \in 0..(n - 1) |->
        [score |-> 0, armies |-> << >>,
         headquarters_position |-> <<0, 0>>, is_eliminated |-> FALSE]]

\* the outcome of the latest call: the operation, what it returned, the present
\* names of the armies it was given or made (0: none, or gone), and the number of
\* armies it took off the rosters
Outcome(op, ok, a, b, removed) ==
    [op |-> op, ok |-> ok, army |-> a, other |-> b, removed |-> removed]

\* what the latest call returned, when it was load_game: nothing otherwise
NotLoaded == [status |-> "none"]

\* no call of _generate_clumped_terrain is being followed
NoClump == [phase |-> "none"]

\* GameState(board, num_players = n) under configuration cfg
Constructed(n, cfg, follow) ==
    \E forts \in FortLayouts :
        LET w == SetupGame(0, n, cfg,
                    [army |-> << >>, reg |-> << >>,
                     players |-> NewPlayers(n), tiles |-> GeneratedTiles(forts)])
        IN  /\ army = w.army
            /\ armies_by_position = w.reg
            /\ players = w.players
            /\ tiles = w.tiles
            /\ config = cfg
            /\ current_player_index = 0
            /\ turn_number = 1
            /\ game_over = FALSE
            /\ winner = NoPlayer
            /\ last = Outcome("init", TRUE, 0, 0, 0)
            /\ desync_left = follow
            /\ restarts = 0
            /\ loaded = NotLoaded
            /\ map_board = NewBoard
            /\ clump = NoClump

Init == \E n \in 1..MaxPlayers : Constructed(n, SmallConfig, MaxDesyncSteps)

NumPlayers == Cardinality(DOMAIN players)

(***************************************************************************)
(* The two indices of the armies                                           *)
(***************************************************************************)
\* every army is listed once in the registry, under its own position, and once in
\* the rosters, in that of its owner
InSync ==
    LET ro == RegistryOrder(armies_by_position, 0)
        po == RosterOrder(players, 0)
    IN  /\ Len(ro) = Cardinality(Range(ro))
        /\ Len(po) = Cardinality(Range(po))
        /\ Range(ro) = Range(po)
        /\ \A q \in DOMAIN armies_by_position :
                \A k \in 1..Len(armies_by_position[q]) :
                    PosOf(army[armies_by_position[q][k]]) = q
        /\ \A i \in DOMAIN players :
                \A k \in 1..Len(players[i].armies) :
                    army[players[i].armies[k]].player_id = i

\* the model follows a run for MaxDesyncSteps operations after the indices have
\* come apart
Followed == InSync \/ desync_left > 0

CountStep ==
    /\ desync_left' = IF InSync THEN desync_left ELSE desync_left - 1
    /\ UNCHANGED <<restarts, map_board, clump>>
    /\ loaded' = NotLoaded

\* the state an operation leaves: the entities renamed, the outcome recorded
Leaves(arm, reg, pl, op, a, b) ==
    LET ren == Rename(arm, reg, pl)
    IN  /\ army' = Collect(arm, reg, pl)
        /\ armies_by_position' = [q \in DOMAIN reg |-> RenameList(reg[q], ren)]
        /\ players' = [i \in DOMAIN pl |-> [pl[i] EXCEPT !.armies = RenameList(@, ren)]]
        /\ last' = Outcome(op, TRUE, NewId(ren, a), NewId(ren, b),
                         Max(0, Len(RosterOrder(players, 0)) - Len(RosterOrder(pl, 0))))

\* Rejects with the game ended by the rejected command
Rejects_GameEnded ==
    /\ last' = Outcome("rejected", FALSE, 0, 0, 0)
    /\ game_over' = TRUE
    /\ UNCHANGED <<army, armies_by_position, players, tiles, config,
                   current_player_index, turn_number, winner>>

\* a command that returns False changes nothing
Rejects ==
    /\ last' = Outcome("rejected", FALSE, 0, 0, 0)
    /\ UNCHANGED <<army, armies_by_position, players, tiles, config,
                   current_player_index, turn_number, game_over, winner>>

(***************************************************************************)
(* Inputs of the commands                                                  *)
(***************************************************************************)
\* destinations offered to move and split: the first headquarters, the tile west
\* of it, and one position off the board
Dests == {<<1, 1>>, <<0, 1>>, <<-1, 1>>}

BoardArmies == UNION {Range(armies_by_position[p]) : p \in DOMAIN armies_by_position}

\* the armies the interface hands to a command: on the board, of the current player
Selectable == {a \in BoardArmies : army[a].player_id = current_player_index}

(***************************************************************************)
(* move_army                                                               *)
(***************************************************************************)
RECURSIVE TierSpeed(_, _, _)
TierSpeed(tiers, strength, k) ==
    IF k > Len(tiers) THEN 1
    ELSE IF tiers[k].min <= strength /\ strength <= tiers[k].max
         THEN tiers[k].speed
         ELSE TierSpeed(tiers, strength, k + 1)

CalculateMovementRange(a) ==
    TierSpeed(config.movement_tiers, a.strength, 1)
        + (IF a.has_general THEN config.movement_general_bonus ELSE 0)

MoveValid(a, dest) ==
    /\ IsValidPosition(dest)
    /\ Manhattan(dest, PosOf(army[a])) <= CalculateMovementRange(army[a])

MoveArmy(a, dest) ==
    IF MoveValid(a, dest)
    THEN LET arm1 == [army EXCEPT ![a].x = dest[1], ![a].y = dest[2],
                                  ![a].moved_this_turn = TRUE]
             reg1 == BoardMoveArmy(armies_by_position, arm1, a, PosOf(army[a]), dest)
         IN  /\ RegistrySize(reg1) <= MaxArmies
             /\ Leaves(arm1, reg1, players, "move", a, 0)
             /\ UNCHANGED <<tiles, config, current_player_index, turn_number,
                            game_over, winner>>
    ELSE Rejects

Move ==
    /\ Followed
    /\ CountStep
    /\ \E a \in Selectable, dest \in Dests : MoveArmy(a, dest)

(***************************************************************************)
(* Player                                                                  *)
(***************************************************************************)
\* Player.add_army (army.player_id is already the player's id)
PlayerAddArmy(pl, p, a) == [pl EXCEPT ![p].armies = Append(@, a)]

\* Player.remove_army: `if army in self.armies: self.armies.remove(army)`
PlayerRemoveArmy(pl, arm, p, a) == [pl EXCEPT ![p].armies = ListRemove(@, a, arm)]

(***************************************************************************)
(* split_army                                                              *)
(***************************************************************************)
SplitStrengths == {1, 101}
SplitFoods == {1}

SplitValid(a, new_strength, new_food, dest) ==
    /\ ~(new_strength <= 0 \/ new_strength >= army[a].strength)
    /\ ~(new_food <= 0 \/ new_food >= army[a].food)
    /\ IsValidPosition(dest)
    /\ Manhattan(dest, PosOf(army[a])) = 1

\* SplitArmies with the general told to go staying with the parent as well
SplitArmies_GeneralStays(arm, a, id, new_strength, new_food, keep_general, dest) ==
    LET child == NewArmy(dest[1], dest[2], new_strength, new_food,
                         keep_general /\ arm[a].has_general, arm[a].player_id)
        arm1 == [arm EXCEPT ![a].strength = @ - new_strength,
                            ![a].food = @ - new_food]
    IN  Extend(arm1, id, child)

\* the army entities after a successful split; id is the new army
SplitArmies(arm, a, id, new_strength, new_food, keep_general, dest) ==
    LET child == NewArmy(dest[1], dest[2], new_strength, new_food,
                         keep_general /\ arm[a].has_general, arm[a].player_id)
        arm1 == [arm EXCEPT ![a].strength = @ - new_strength,
                            ![a].food = @ - new_food,
                            ![a].has_general = IF keep_general THEN FALSE ELSE @]
    IN  Extend(arm1, id, child)

SplitArmy(a, new_strength, new_food, keep_general, dest) ==
    IF SplitValid(a, new_strength, new_food, dest)
    THEN /\ Cardinality(DOMAIN army) < MaxArmies
         /\ RegistrySize(armies_by_position) < MaxArmies
         /\ LET id == FreshId(army)
                arm1 == SplitArmies(army, a, id, new_strength, new_food, keep_general, dest)
                reg1 == BoardAddArmy(armies_by_position, arm1, id)
                pl1 == PlayerAddArmy(players, army[a].player_id, id)
                arm2 == [arm1 EXCEPT ![a].moved_this_turn = TRUE,
                                     ![id].moved_this_turn = TRUE]
            IN  /\ Leaves(arm2, reg1, pl1, "split", a, id)
                /\ UNCHANGED <<tiles, config, current_player_index, turn_number,
                               game_over, winner>>
    ELSE Rejects

Split ==
    /\ Followed
    /\ CountStep
    /\ \E a \in Selectable, ns \in SplitStrengths, nf \in SplitFoods,
          kg \in BOOLEAN, dest \in Dests :
            SplitArmy(a, ns, nf, kg, dest)

(***************************************************************************)
(* merge_armies                                                            *)
(***************************************************************************)
MergeValid(a1, a2) ==
    /\ army[a1].player_id = army[a2].player_id
    /\ Manhattan(PosOf(army[a1]), PosOf(army[a2])) = 1

\* army1 absorbs army2
MergeInto(arm, a1, a2) ==
    [arm EXCEPT ![a1].strength = @ + arm[a2].strength,
                ![a1].food = @ + arm[a2].food,
                ![a1].has_general = @ \/ arm[a2].has_general]

MergeArmies(a1, a2) ==
    IF MergeValid(a1, a2)
    THEN LET arm1 == MergeInto(army, a1, a2)
             reg1 == BoardRemoveArmy(armies_by_position, arm1, a2)
             pl1 == PlayerRemoveArmy(players, arm1, arm1[a2].player_id, a2)
             arm2 == [arm1 EXCEPT ![a1].moved_this_turn = TRUE]
         IN  /\ Leaves(arm2, reg1, pl1, "merge", a1, a2)
             /\ UNCHANGED <<tiles, config, current_player_index, turn_number,
                            game_over, winner>>
    ELSE Rejects

Merge ==
    /\ Followed
    /\ CountStep
    /\ \E a1 \in Selectable, a2 \in BoardArmies : MergeArmies(a1, a2)

(***************************************************************************)
(* retreat_army                                                            *)
(***************************************************************************)
RetreatValid(a) ==
    PosOf(army[a]) = players[army[a].player_id].headquarters_position

RetreatArmy(a) ==
    IF RetreatValid(a)
    THEN LET reg1 == BoardRemoveArmy(armies_by_position, army, a)
             pl1 == PlayerRemoveArmy(players, army, army[a].player_id, a)
         IN  /\ Leaves(army, reg1, pl1, "retreat", a, 0)
             /\ UNCHANGED <<tiles, config, current_player_index, turn_number,
                            game_over, winner>>
    ELSE Rejects

Retreat ==
    /\ Followed
    /\ CountStep
    /\ \E a \in Selectable : RetreatArmy(a)

(***************************************************************************)
(* next_turn                                                               *)
(***************************************************************************)
\* the food an army consumes at the end of its owner's turn
FoodConsumption(cfg, a) ==
    IF a.moved_this_turn /\ a.fought_this_turn THEN cfg.consumption_combat
    ELSE IF a.moved_this_turn THEN cfg.consumption_moving
    ELSE cfg.consumption_stationary

\* EndOfTurnArmy without `army.food = 0` for a starving army: the deficit stays
EndOfTurnArmy_DeficitKept(cfg, tls, p, a) ==
    LET food1 == a.food - FoodConsumption(cfg, a)
        strength2 == IF food1 <= 0
                     THEN a.strength - Min(Abs(food1) + 1, a.strength)
                     ELSE a.strength
        tile == tls[PosOf(a)]
        food3 == IF tile.type = "FORT" THEN food1 + cfg.fort_food_generation ELSE food1
        food4 == IF tile.type = "HEADQUARTERS" /\ tile.player_id = p
                 THEN cfg.starting_food ELSE food3
    IN  [a EXCEPT !.strength = strength2, !.food = food4,
                  !.moved_this_turn = FALSE, !.fought_this_turn = FALSE]

\* EndOfTurnArmy with a strength loss of abs(army.food) only
EndOfTurnArmy_DeficitOnly(cfg, tls, p, a) ==
    LET food1 == a.food - FoodConsumption(cfg, a)
        starved == food1 <= 0
        strength2 == IF starved
                     THEN a.strength - Min(Abs(food1), a.strength)
                     ELSE a.strength
        food2 == IF starved THEN 0 ELSE food1
        tile == tls[PosOf(a)]
        food3 == IF tile.type = "FORT" THEN food2 + cfg.fort_food_generation ELSE food2
        food4 == IF tile.type = "HEADQUARTERS" /\ tile.player_id = p
                 THEN cfg.starting_food ELSE food3
    IN  [a EXCEPT !.strength = strength2, !.food = food4,
                  !.moved_this_turn = FALSE, !.fought_this_turn = FALSE]

\* the body of the loop of _process_end_of_turn for one army record a of player p,
\* up to the reset of the flags
EndOfTurnArmy(cfg, tls, p, a) ==
    LET food1 == a.food - FoodConsumption(cfg, a)
        starved == food1 <= 0
        strength2 == IF starved
                     THEN a.strength - Min(Abs(food1) + 1, a.strength)
                     ELSE a.strength
        food2 == IF starved THEN 0 ELSE food1
        tile == tls[PosOf(a)]
        food3 == IF tile.type = "FORT" THEN food2 + cfg.fort_food_generation ELSE food2
        food4 == IF tile.type = "HEADQUARTERS" /\ tile.player_id = p
                 THEN cfg.starting_food ELSE food3
    IN  [a EXCEPT !.strength = strength2, !.food = food4,
                  !.moved_this_turn = FALSE, !.fought_this_turn = FALSE]

\* `for army in player.armies`: the iterator is an index into the live list, so a
\* removal during the loop shifts the following army into the slot just visited
RECURSIVE EndOfTurnLoop(_, _, _, _, _)
EndOfTurnLoop(cfg, tls, p, idx, w) ==
    IF idx > Len(w.players[p].armies) THEN w
    ELSE LET a == w.players[p].armies[idx]
             arm1 == [w.army EXCEPT ![a] = EndOfTurnArmy(cfg, tls, p, w.army[a])]
             w1 == IF arm1[a].strength <= 0
                   THEN [army |-> arm1,
                         reg |-> BoardRemoveArmy(w.reg, arm1, a),
                         players |-> PlayerRemoveArmy(w.players, arm1, p, a)]
                   ELSE [w EXCEPT !.army = arm1]
         IN  EndOfTurnLoop(cfg, tls, p, idx + 1, w1)

\* the forts whose armies all belong to player p (and at least one is present)
\* ControlledForts with the forts on which player p has an army among others
ControlledForts_Shared(tls, reg, arm, p) ==
    {q \in Positions :
        /\ tls[q].type = "FORT"
        /\ GetArmiesAt(reg, q) # << >>
        /\ \E k \in 1..Len(reg[q]) : arm[reg[q][k]].player_id = p}

ControlledForts(tls, reg, arm, p) ==
    {q \in Positions :
        /\ tls[q].type = "FORT"
        /\ GetArmiesAt(reg, q) # << >>
        /\ \A k \in 1..Len(reg[q]) : arm[reg[q][k]].player_id = p}

\* ProcessEndOfTurn with the fort-control bonus given to every player
ProcessEndOfTurn_BonusToAll(cfg, tls, p, w) ==
    LET w1 == EndOfTurnLoop(cfg, tls, p, 1, w)
        pl1 == IF w1.players[p].armies = << >>
               THEN [w1.players EXCEPT ![p].is_eliminated = TRUE]
               ELSE w1.players
        bonus == cfg.fort_control * Cardinality(ControlledForts(tls, w1.reg, w1.army, p))
    IN  [w1 EXCEPT !.players = [i \in DOMAIN pl1 |-> [pl1[i] EXCEPT !.score = @ + bonus]]]

ProcessEndOfTurn(cfg, tls, p, w) ==
    LET w1 == EndOfTurnLoop(cfg, tls, p, 1, w)
        pl1 == IF w1.players[p].armies = << >>
               THEN [w1.players EXCEPT ![p].is_eliminated = TRUE]
               ELSE w1.players
        bonus == cfg.fort_control * Cardinality(ControlledForts(tls, w1.reg, w1.army, p))
    IN  [w1 EXCEPT !.players = [pl1 EXCEPT ![p].score = @ + bonus]]

\* _determine_winner: the first player whose score is strictly above all before it
RECURSIVE WinnerScan(_, _, _, _)
WinnerScan(pl, i, max_score, win) ==
    IF i \notin DOMAIN pl THEN win
    ELSE IF pl[i].score > max_score
         THEN WinnerScan(pl, i + 1, pl[i].score, i)
         ELSE WinnerScan(pl, i + 1, max_score, win)

\* DetermineWinner with the scan started at max_score = 0 instead of -1
DetermineWinner_FromZero(pl) == WinnerScan(pl, 0, 0, NoPlayer)

\* DetermineWinner with the last of the players of highest score taken
DetermineWinner_LastLeader(pl) ==
    CHOOSE w \in DOMAIN pl :
        /\ \A j \in DOMAIN pl : pl[j].score <= pl[w].score
        /\ \A j \in DOMAIN pl : j > w => pl[j].score < pl[w].score

DetermineWinner(pl) == WinnerScan(pl, 0, -1, NoPlayer)

\* the while loop of next_turn, entered with index idx
RECURSIVE SkipEliminated(_, _)
SkipEliminated(pl, idx) ==
    IF ~pl[idx].is_eliminated THEN [index |-> idx, over |-> FALSE]
    ELSE LET nxt == (idx + 1) % Cardinality(DOMAIN pl)
         IN  IF nxt = 0 THEN [index |-> 0, over |-> TRUE]
             ELSE SkipEliminated(pl, nxt)

NextTurn ==
    /\ Followed
    /\ CountStep
    /\ turn_number <= Max(MaxTurn, config.turn_limit)
    /\ players[current_player_index].score < MaxScore
    /\ LET w1 == ProcessEndOfTurn(config, tiles, current_player_index,
                    [army |-> army, reg |-> armies_by_position, players |-> players])
           n == Cardinality(DOMAIN players)
           skip == SkipEliminated(w1.players, (current_player_index + 1) % n)
           wrapped == skip.index = 0
           turn1 == IF wrapped THEN turn_number + 1 ELSE turn_number
           limit == wrapped /\ turn1 > config.turn_limit
       IN  /\ Leaves(w1.army, w1.reg, w1.players, "nextTurn", 0, 0)
           /\ current_player_index' = skip.index
           /\ turn_number' = turn1
           /\ game_over' = (game_over \/ skip.over \/ limit)
           /\ winner' = IF skip.over \/ limit THEN DetermineWinner(w1.players)
                        ELSE winner
           /\ UNCHANGED <<tiles, config>>

(***************************************************************************)
(* update: combat resolution and the game-over check                       *)
(***************************************************************************)
\* int(remaining_damage * (strength / total_strength))
ProportionalDamage(remaining, strength, total) == TruncDiv(remaining * strength, total)

\* int(elimination_factor * eliminated.strength), read when the award is made
EliminationPoints(cfg, e) == TruncDiv(cfg.elimination_factor_num * e.strength, cfg.rate_den)

\* some army of the roster is within Manhattan distance 1 of army record e
IsInContact(player, arm, e) ==
    \E k \in 1..Len(player.armies) :
        Manhattan(PosOf(arm[player.armies[k]]), PosOf(e)) <= 1

\* AwardElimination without the tests of ownership and contact, one point each
AwardElimination_ToAll(cfg, pl, arm, e) ==
    [p \in DOMAIN pl |-> [pl[p] EXCEPT !.score = @ + 1]]

\* the award loop over self.players for one eliminated army
AwardElimination(cfg, pl, arm, e) ==
    [p \in DOMAIN pl |->
        IF p # arm[e].player_id /\ IsInContact(pl[p], arm, arm[e])
        THEN [pl[p] EXCEPT !.score = @ + EliminationPoints(cfg, arm[e])]
        ELSE pl[p]]

\* Eliminate with the owner flagged eliminated when its roster is left empty
Eliminate_FlagsOwner(cfg, w, e) ==
    LET pl1 == PlayerRemoveArmy(AwardElimination(cfg, w.players, w.army, e),
                                w.army, w.army[e].player_id, e)
        owner == w.army[e].player_id
    IN  [army |-> w.army,
         reg |-> BoardRemoveArmy(w.reg, w.army, e),
         players |-> IF pl1[owner].armies = << >>
                     THEN [pl1 EXCEPT ![owner].is_eliminated = TRUE]
                     ELSE pl1]

\* award, then remove the eliminated army from the board and from its player
Eliminate(cfg, w, e) ==
    [army |-> w.army,
     reg |-> BoardRemoveArmy(w.reg, w.army, e),
     players |-> PlayerRemoveArmy(AwardElimination(cfg, w.players, w.army, e),
                                  w.army, w.army[e].player_id, e)]

\* `for eliminated in eliminated_armies`, in list order
RECURSIVE EliminateAll(_, _, _, _)
EliminateAll(cfg, w, ds, j) ==
    IF j > Len(ds) THEN w
    ELSE IF w.army[ds[j]].strength <= 0
         THEN EliminateAll(cfg, Eliminate(cfg, w, ds[j]), ds, j + 1)
         ELSE EliminateAll(cfg, w, ds, j + 1)

RECURSIVE SumStrength(_, _, _)
SumStrength(arm, lst, k) ==
    IF k > Len(lst) THEN 0 ELSE arm[lst[k]].strength + SumStrength(arm, lst, k + 1)

\* the loop of _apply_damage_to_armies from the k-th army on; the elimination
\* pass runs inside the loop, after each army's damage
RECURSIVE DamageLoop(_, _, _, _, _, _)
DamageLoop(cfg, w, ds, k, remaining, total) ==
    IF k > Len(ds) THEN w
    ELSE LET a == ds[k]
             army_damage == Min(ProportionalDamage(remaining, w.army[a].strength, total),
                                w.army[a].strength)
             w1 == [w EXCEPT !.army[a].strength = @ - army_damage]
         IN  DamageLoop(cfg, EliminateAll(cfg, w1, ds, 1), ds, k + 1,
                        remaining - army_damage, total)

ApplyDamageToArmies(cfg, w, ds, total_damage) ==
    LET total == SumStrength(w.army, ds, 1)
    IN  IF total <= 0 THEN w ELSE DamageLoop(cfg, w, ds, 1, total_damage, total)

\* CombatDamage without the general bonus
CombatDamage_NoGeneralBonus(cfg, attacker_strength, attacker_has_general) ==
    TruncDiv(attacker_strength * cfg.base_attrition_num, cfg.rate_den)

\* the damage one player's group deals: int(strength * (base + general bonus))
CombatDamage(cfg, attacker_strength, attacker_has_general) ==
    TruncDiv(attacker_strength
                * (cfg.base_attrition_num
                    + (IF attacker_has_general THEN cfg.combat_general_bonus_num ELSE 0)),
             cfg.rate_den)

\* armies_by_player: the owners in order of first appearance, and each one's armies
OwnersOf(arm, lst) ==
    Distinct([k \in 1..Len(lst) |-> arm[lst[k]].player_id], {})

GroupOf(arm, lst, p) == SelectSeq(lst, LAMBDA a : arm[a].player_id = p)

\* MarkFought with the mark put on the first army of the list only
MarkFought_FirstOnly(arm, lst) ==
    [a \in DOMAIN arm |->
        IF lst # << >> /\ a = lst[1]
        THEN [arm[a] EXCEPT !.fought_this_turn = TRUE] ELSE arm[a]]

\* MarkFought with the mark put on every army of the game
MarkFought_Everyone(arm, lst) ==
    [a \in DOMAIN arm |-> [arm[a] EXCEPT !.fought_this_turn = TRUE]]

\* `for army in attacker_armies + defender_armies: army.fought_this_turn = True`
MarkFought(arm, lst) ==
    [a \in DOMAIN arm |->
        IF a \in Range(lst) THEN [arm[a] EXCEPT !.fought_this_turn = TRUE] ELSE arm[a]]

\* the double loop over (attacker, defender), pairs numbered k = 0..n*n-1;
\* str and gen are the aggregates taken before any damage
RECURSIVE CombatPairs(_, _, _, _, _, _, _)
CombatPairs(cfg, w, owners, groups, str, gen, k) ==
    LET n == Len(owners)
    IN  IF k >= n * n THEN w
        ELSE LET att == owners[(k \div n) + 1]
                 def == owners[(k % n) + 1]
             IN  IF att = def
                 THEN CombatPairs(cfg, w, owners, groups, str, gen, k + 1)
                 ELSE LET w1 == ApplyDamageToArmies(cfg, w, groups[def],
                                    CombatDamage(cfg, str[att], gen[att]))
                          w2 == [w1 EXCEPT !.army =
                                    MarkFought(w1.army, groups[att] \o groups[def])]
                      IN  CombatPairs(cfg, w2, owners, groups, str, gen, k + 1)

ProcessCombatAtPosition(cfg, w, armies) ==
    LET owners == OwnersOf(w.army, armies)
        groups == [p \in Range(owners) |-> GroupOf(w.army, armies, p)]
        str == [p \in Range(owners) |-> SumStrength(w.army, groups[p], 1)]
        gen == [p \in Range(owners) |->
                    \E k \in 1..Len(groups[p]) : w.army[groups[p][k]].has_general]
    IN  CombatPairs(cfg, w, owners, groups, str, gen, 0)

\* positions in the order of the scan `for x ... for y ...`
ScanPosition(k) == <<k \div BoardHeight, k % BoardHeight>>

IsContact(reg, arm, q) ==
    /\ q \in DOMAIN reg
    /\ \E i, j \in 1..Len(reg[q]) : arm[reg[q][i]].player_id # arm[reg[q][j]].player_id

\* the contact positions are fixed before any combat; each is then fought with
\* the armies the registry lists there at that moment
RECURSIVE ResolveCombatFrom(_, _, _, _)
ResolveCombatFrom(cfg, w, contacts, k) ==
    IF k >= BoardWidth * BoardHeight THEN w
    ELSE IF ScanPosition(k) \in contacts
         THEN ResolveCombatFrom(cfg,
                 ProcessCombatAtPosition(cfg, w, GetArmiesAt(w.reg, ScanPosition(k))),
                 contacts, k + 1)
         ELSE ResolveCombatFrom(cfg, w, contacts, k + 1)

ResolveCombat(cfg, w) ==
    ResolveCombatFrom(cfg, w, {q \in Positions : IsContact(w.reg, w.army, q)}, 0)

\* GameOverCondition with the game going on while any player is left
GameOverCondition_NoneLeft(cfg, pl, turn) ==
    \/ Cardinality({p \in DOMAIN pl : ~pl[p].is_eliminated}) = 0
    \/ turn > cfg.turn_limit

\* _check_game_over
GameOverCondition(cfg, pl, turn) ==
    \/ Cardinality({p \in DOMAIN pl : ~pl[p].is_eliminated}) <= 1
    \/ turn > cfg.turn_limit

Update ==
    LET w1 == ResolveCombat(config,
                [army |-> army, reg |-> armies_by_position, players |-> players])
        over == GameOverCondition(config, w1.players, turn_number)
    IN  /\ Followed
        /\ CountStep
        /\ Leaves(w1.army, w1.reg, w1.players, "update", 0, 0)
        /\ game_over' = (game_over \/ over)
        /\ winner' = IF over THEN DetermineWinner(w1.players) ELSE winner
        /\ UNCHANGED <<tiles, config, current_player_index, turn_number>>

(***************************************************************************)
(* The "New Game" button                                                   *)
(***************************************************************************)
\* generate_random_map and _setup_game run again on the same GameState: rosters,
\* registry, scores and elimination flags stay as they are
NewGame ==
    /\ Followed
    /\ desync_left' = IF InSync THEN desync_left ELSE desync_left - 1
    /\ restarts < MaxRestarts
    /\ restarts' = restarts + 1
    /\ loaded' = NotLoaded
    /\ UNCHANGED <<map_board, clump>>
    /\ RegistrySize(armies_by_position) + NumPlayers <= MaxArmies
    /\ \E forts \in FortLayouts :
            LET w == SetupGame(0, NumPlayers, config,
                        [army |-> army, reg |-> armies_by_position,
                         players |-> players, tiles |-> GeneratedTiles(forts)])
            IN  /\ Leaves(w.army, w.reg, w.players, "newGame", 0, 0)
                /\ tiles' = w.tiles
    /\ turn_number' = 1
    /\ current_player_index' = 0
    /\ game_over' = FALSE
    /\ winner' = NoPlayer
    /\ UNCHANGED config

(***************************************************************************)
(* utils/serialization.py: save_game and load_game                         *)
(***************************************************************************)
\* one army of the saved document: the owner is not written
SavedArmy(a) ==
    [x |-> a.x, y |-> a.y, strength |-> a.strength, food |-> a.food,
     has_general |-> a.has_general,
     moved_this_turn |-> a.moved_this_turn, fought_this_turn |-> a.fought_this_turn]

\* the document save_game writes: rows of tiles, players in list order with
\* their armies in roster order, the winner by id
SaveGame(arm, pl, tls, index, turn, over, win) ==
    [turn_number |-> turn,
     current_player_index |-> index,
     game_over |-> over,
     winner |-> win,
     board |-> [width |-> BoardWidth, height |-> BoardHeight,
                tiles |-> [r \in 1..BoardHeight |->
                            [c \in 1..BoardWidth |->
                                [type |-> tls[<<c - 1, r - 1>>].type,
                                 player_id |-> tls[<<c - 1, r - 1>>].player_id]]]],
     players |-> [k \in 1..Cardinality(DOMAIN pl) |->
                    [id |-> k - 1, name |-> k,
                     score |-> pl[k - 1].score,
                     headquarters_position |-> pl[k - 1].headquarters_position,
                     is_eliminated |-> pl[k - 1].is_eliminated,
                     armies |-> [j \in 1..Len(pl[k - 1].armies) |->
                                    SavedArmy(arm[pl[k - 1].armies[j]])]]]]

\* the tiles load_game writes on its new board from the document
LoadedTiles(board_data) ==
    [p \in (0..(board_data.width - 1)) \X (0..(board_data.height - 1)) |->
        [type |-> board_data.tiles[p[2] + 1][p[1] + 1].type,
         player_id |-> board_data.tiles[p[2] + 1][p[1] + 1].player_id]]

\* the armies of one player of the document, from the j-th on, made anew and
\* added to the roster of player p and to the board
RECURSIVE LoadArmies(_, _, _, _)
LoadArmies(g, p, army_data, j) ==
    IF j > Len(army_data) THEN g
    ELSE LET d == army_data[j]
             id == FreshId(g.army)
             made == [NewArmy(d.x, d.y, d.strength, d.food, d.has_general, p)
                        EXCEPT !.moved_this_turn = d.moved_this_turn,
                               !.fought_this_turn = d.fought_this_turn]
             arm1 == Extend(g.army, id, made)
         IN  LoadArmies([g EXCEPT !.army = arm1,
                                  !.players[p].armies = Append(@, id),
                                  !.reg = BoardAddArmy(g.reg, arm1, id)],
                        p, army_data, j + 1)

\* the loop over data['players'], from the k-th on: game_state.players has just
\* been set to the empty list, so players[player_data['id']] raises IndexError
\* for an index that the list does not have
RECURSIVE LoadPlayers(_, _, _)
LoadPlayers(g, player_data, k) ==
    IF k > Len(player_data) \/ g.raised THEN g
    ELSE LET d == player_data[k]
         IN  IF d.id \notin DOMAIN g.players
             THEN [g EXCEPT !.raised = TRUE]
             ELSE LoadPlayers(
                    LoadArmies([g EXCEPT !.players[d.id].score = d.score,
                                         !.players[d.id].headquarters_position =
                                                d.headquarters_position,
                                         !.players[d.id].is_eliminated = d.is_eliminated,
                                         !.players[d.id].armies = << >>],
                               d.id, d.armies, 1),
                    player_data, k + 1)

\* load_game: the tiles of the document are written on a new board, then
\* GameState(board, n) runs _setup_game on it, which generates a map (forts at
\* `forts`) and places the starting armies; then the scalars, then the players
LoadGame(data, cfg, forts) ==
    LET n == Len(data.players)
        read == LoadedTiles(data.board)
        w == SetupGame(0, n, cfg,
                [army |-> << >>, reg |-> << >>, players |-> NewPlayers(n),
                 tiles |-> [p \in DOMAIN read |-> GeneratedTiles(forts)[p]]])
        g1 == [army |-> w.army, reg |-> w.reg, players |-> << >>, tiles |-> w.tiles,
               turn_number |-> data.turn_number,
               current_player_index |-> data.current_player_index,
               game_over |-> data.game_over,
               winner |-> NoPlayer,
               raised |-> FALSE]
        g2 == LoadPlayers(g1, data.players, 1)
    IN  IF g2.raised THEN [status |-> "raised", error |-> "IndexError"]
        ELSE [status |-> "loaded",
              game |-> [g2 EXCEPT !.winner = IF data.winner # NoPlayer
                                             THEN data.winner ELSE @]]

\* save_game followed by load_game of the saved document
SaveLoad ==
    /\ Followed
    /\ \E forts \in FortLayouts :
        loaded' = LoadGame(SaveGame(army, players, tiles, current_player_index,
                                    turn_number, game_over, winner),
                           config, forts)
    /\ last' = Outcome("load", loaded'.status = "loaded", 0, 0, 0)
    /\ UNCHANGED <<army, armies_by_position, players, tiles, config,
                   current_player_index, turn_number, game_over, winner,
                   desync_left, restarts, map_board, clump>>

(***************************************************************************)
(* generate_random_map                                                     *)
(***************************************************************************)
\* generate_random_map(fort_count, forest_percentage, river_count,
\* mountain_percentage) on the board of main.py, the percentages in PercentDen-ths
GenerateRandomMap(fort_count, forest_num, river_count, mountain_num) ==
    /\ map_board.generations < MaxGenerations
    /\ \E fort_positions \in MapFortLayouts(fort_count) :
        LET t0 == SetTileTypes(InitializeBoard, fort_positions, "FORT")
        IN  \E forests \in GenerateClumpedTerrain(t0, TerrainCount(forest_num), "FOREST", 7) :
            LET t1 == SetTileTypesOfSet(t0, forests, "FOREST")
            IN  \E mountains \in GenerateClumpedTerrain(t1, TerrainCount(mountain_num),
                                                        "MOUNTAIN", 6) :
                LET t2 == SetTileTypesOfSet(t1, mountains, "MOUNTAIN")
                IN  \E t3 \in {SetRivers(t2, rivers) : rivers \in GenerateRivers(river_count)} :
                        map_board' = [tiles |-> t3, fort_positions |-> fort_positions,
                                      generations |-> map_board.generations + 1]
    /\ last' = Outcome("generate", TRUE, 0, 0, 0)
    /\ UNCHANGED <<army, armies_by_position, players, tiles, config,
                   current_player_index, turn_number, game_over, winner,
                   desync_left, restarts, loaded, clump>>

GenerateMap == GenerateRandomMap(FortCount, ForestTiles, RiverCount, MountainTiles)

(***************************************************************************)
(* Specifications                                                          *)
(***************************************************************************)
\* the engine, games of one to MaxPlayers players
Next == Move \/ Split \/ Merge \/ Retreat \/ NextTurn \/ Update

Spec == Init /\ [][Next]_vars

\* the commands and the interface's "New Game" in a game of RestartPlayers
\* players, armies of the larger configuration
InitRestart == Constructed(RestartPlayers, LargeConfig, MaxDesyncSteps)

NextRestart == NewGame \/ Move \/ Split \/ Merge

SpecRestart == InitRestart /\ [][NextRestart]_vars

\* a game of CampaignPlayers players with armies of full strength, followed for
\* CampaignDesyncSteps operations after the indices have come apart
InitCampaign == Constructed(CampaignPlayers, FullConfig, CampaignDesyncSteps)

NextCampaign == Move \/ Split \/ Merge \/ Retreat

SpecCampaign == InitCampaign /\ [][NextCampaign]_vars

(***************************************************************************)
(* _generate_clumped_terrain, one draw of the random generator per step    *)
(***************************************************************************)
ClumpPositions == (0..(ClumpWidth - 1)) \X (0..(ClumpHeight - 1))

\* get_adjacent_positions on a board of the given size
AdjacentOn(width, height, p) ==
    {q \in {<<p[1] - 1, p[2]>>, <<p[1] + 1, p[2]>>, <<p[1], p[2] - 1>>, <<p[1], p[2] + 1>>} :
        /\ 0 <= q[1] /\ q[1] < width
        /\ 0 <= q[2] /\ q[2] < height}

\* the valid_adjacent list built for the member `seed` of the set
ValidAdjacentOn(width, height, t, positions, seed, tile_type) ==
    {a \in AdjacentOn(width, height, seed) :
        /\ a \notin positions
        /\ t[a] \notin {"HEADQUARTERS", "FORT", tile_type}}

\* the call _generate_clumped_terrain(count, tile_type, clump_factor) on a
\* board whose tiles have the types t, before its first statement
ClumpCalled(t, count, tile_type, clump_factor) ==
    [phase |-> "called", types |-> t, count |-> count, tile_type |-> tile_type,
     clump_factor |-> clump_factor, seed_count |-> 0, positions |-> {}]

\* the generation of terrain touches nothing of the game
GameUntouched ==
    UNCHANGED <<army, armies_by_position, players, tiles, config,
                current_player_index, turn_number, game_over, winner, last,
                desync_left, restarts, loaded, map_board>>

\* `if count <= 0: return`, then seed_count
ClumpEnter ==
    /\ GameUntouched
    /\ clump.phase = "called"
    /\ clump' = IF clump.count <= 0
                THEN [clump EXCEPT !.phase = "returned"]
                ELSE [clump EXCEPT !.phase = "seeding",
                                   !.seed_count = SeedCount(clump.count, clump.clump_factor)]

\* the seed loop `while len(positions) < seed_count`: one pass draws (x, y) and
\* adds it unless the tile is a headquarters or a fort; the loop is left when
\* the test fails
ClumpSeed ==
    /\ GameUntouched
    /\ clump.phase = "seeding"
    /\ IF Cardinality(clump.positions) < clump.seed_count
       THEN \E d \in ClumpPositions :
               clump' = IF clump.types[d] \notin {"HEADQUARTERS", "FORT"}
                        THEN [clump EXCEPT !.positions = @ \cup {d}]
                        ELSE clump
       ELSE clump' = [clump EXCEPT !.phase = "growing"]

\* the growth loop `while len(positions) < count`: one pass picks a member of
\* the set and adds one of its valid neighbours, if it has any; the loop is left
\* when the test fails or the set is empty
ClumpGrow ==
    /\ GameUntouched
    /\ clump.phase = "growing"
    /\ IF Cardinality(clump.positions) < clump.count /\ clump.positions # {}
       THEN \E seed \in clump.positions :
               LET valid_adjacent == ValidAdjacentOn(ClumpWidth, ClumpHeight, clump.types,
                                        clump.positions, seed, clump.tile_type)
               IN  IF valid_adjacent # {}
                   THEN \E a \in valid_adjacent :
                           clump' = [clump EXCEPT !.positions = @ \cup {a}]
                   ELSE clump' = clump
       ELSE clump' = [clump EXCEPT !.phase = "setting"]

\* `for x, y in positions: self.set_tile_type(x, y, tile_type)`, and the return
ClumpSet ==
    /\ GameUntouched
    /\ clump.phase = "setting"
    /\ clump' = [clump EXCEPT
                    !.types = [q \in ClumpPositions |->
                                  IF q \in clump.positions THEN clump.tile_type
                                  ELSE clump.types[q]],
                    !.phase = "returned"]

\* three players over the rounds of a longer game
InitRounds == Constructed(TurnPlayers, RoundsConfig, MaxDesyncSteps)

NextRounds == Retreat \/ NextTurn \/ Update

SpecRounds == InitRounds /\ [][NextRounds]_vars

\* the armies of one player split, moved and taken through the ends of its
\* turns, followed for CampaignDesyncSteps operations after the indices have
\* come apart
NextAttrition == Move \/ Split \/ NextTurn \/ Update

SpecAttrition == InitCampaign /\ [][NextAttrition]_vars

\* the commands of one player and the end of its turn, followed for
\* LastStandDesyncSteps operations after the indices have come apart
InitLastStand == Constructed(CampaignPlayers, FullConfig, LastStandDesyncSteps)

NextLastStand == Move \/ Split \/ Merge \/ NextTurn

SpecLastStand == InitLastStand /\ [][NextLastStand]_vars

\* split_army on the world w: the child of army a is made at dest, or the
\* command is rejected and w stays as it is
SplitIn(w, a, new_strength, new_food, keep_general, dest) ==
    IF /\ ~(new_strength <= 0 \/ new_strength >= w.army[a].strength)
       /\ ~(new_food <= 0 \/ new_food >= w.army[a].food)
       /\ IsValidPosition(dest)
       /\ Manhattan(dest, PosOf(w.army[a])) = 1
    THEN LET id == FreshId(w.army)
             arm1 == SplitArmies(w.army, a, id, new_strength, new_food, keep_general, dest)
         IN  [w EXCEPT !.army = [arm1 EXCEPT ![a].moved_this_turn = TRUE,
                                             ![id].moved_this_turn = TRUE],
                       !.reg = BoardAddArmy(w.reg, arm1, id),
                       !.players = PlayerAddArmy(w.players, w.army[a].player_id, id)]
    ELSE w

\* move_army on the world w
MoveIn(w, a, dest) ==
    IF /\ IsValidPosition(dest)
       /\ Manhattan(dest, PosOf(w.army[a])) <= CalculateMovementRange(w.army[a])
    THEN LET arm1 == [w.army EXCEPT ![a].x = dest[1], ![a].y = dest[2],
                                    ![a].moved_this_turn = TRUE]
         IN  [w EXCEPT !.army = arm1,
                       !.reg = BoardMoveArmy(w.reg, arm1, a, PosOf(w.army[a]), dest)]
    ELSE w

\* a game of TurnPlayers players in the turn of its last player: player 0 has
\* asked twice for a child of its army on the tile west of its headquarters and
\* may have moved the first child back onto the headquarters, player 1 may have
\* moved its army there, player 2 has split its army and moved the parent
\* there; each of the earlier players has ended its turn
InitMelee ==
    /\ config = MeleeConfig
    /\ \E forts \in FortLayouts, first, second, third \in 1..(MeleeConfig.starting_army_size - 1),
          gather, march, keep_general \in BOOLEAN :
        \E w0 \in {SetupGame(0, TurnPlayers, MeleeConfig,
                        [army |-> << >>, reg |-> << >>,
                         players |-> NewPlayers(TurnPlayers),
                         tiles |-> GeneratedTiles(forts)])} :
        \E hq \in {HeadquartersPositions[1]} :
        \E w1 \in {SplitIn(w0, 1, first, MeleeSplitFood, FALSE, <<hq[1] - 1, hq[2]>>)} :
        \E w2 \in {SplitIn(w1, 1, second, MeleeSplitFood, FALSE, <<hq[1] - 1, hq[2]>>)} :
        \E w3 \in {IF gather THEN MoveIn(w2, 4, hq) ELSE w2} :
        \E w4 \in {ProcessEndOfTurn(MeleeConfig, w0.tiles, 0,
                        [army |-> w3.army, reg |-> w3.reg, players |-> w3.players])} :
        \E w5 \in {IF march THEN MoveIn(w4, 2, hq) ELSE w4} :
        \E w6 \in {ProcessEndOfTurn(MeleeConfig, w0.tiles, 1, w5)} :
        \E w7 \in {SplitIn(w6, 3, third, MeleeSplitFood, keep_general,
                            <<HeadquartersPositions[3][1] - 1,
                              HeadquartersPositions[3][2]>>)} :
        \E w8 \in {MoveIn(w7, 3, hq)} :
        \E ren \in {Rename(w8.army, w8.reg, w8.players)} :
            /\ army = Collect(w8.army, w8.reg, w8.players)
            /\ armies_by_position = [q \in DOMAIN w8.reg |-> RenameList(w8.reg[q], ren)]
            /\ players = [i \in DOMAIN w8.players |->
                            [w8.players[i] EXCEPT !.armies = RenameList(@, ren)]]
            /\ tiles = w0.tiles
    /\ current_player_index = TurnPlayers - 1
    /\ turn_number = 1
    /\ game_over = FALSE
    /\ winner = NoPlayer
    /\ last = Outcome("init", TRUE, 0, 0, 0)
    /\ desync_left = MaxDesyncSteps
    /\ restarts = 0
    /\ loaded = NotLoaded
    /\ map_board = NewBoard
    /\ clump = NoClump

NextMelee == Retreat \/ NextTurn \/ Update

SpecMelee == InitMelee /\ [][NextMelee]_vars

\* map generation on the board of main.py
InitMap == Constructed(1, SmallConfig, MaxDesyncSteps)

NextMap == GenerateMap

SpecMap == InitMap /\ [][NextMap]_vars

\* one call of _generate_clumped_terrain for forests, on every board of
\* ClumpWidth x ClumpHeight tiles and with every count up to MaxClumpCount; each
\* pass of a loop that can change the set is eventually one that does
InitClump ==
    /\ \E forts \in FortLayouts :
        LET w == SetupGame(0, 1, SmallConfig,
                    [army |-> << >>, reg |-> << >>,
                     players |-> NewPlayers(1), tiles |-> GeneratedTiles(forts)])
        IN  /\ army = w.army
            /\ armies_by_position = w.reg
            /\ players = w.players
            /\ tiles = w.tiles
    /\ config = SmallConfig
    /\ current_player_index = 0
    /\ turn_number = 1
    /\ game_over = FALSE
    /\ winner = NoPlayer
    /\ last = Outcome("init", TRUE, 0, 0, 0)
    /\ desync_left = MaxDesyncSteps
    /\ restarts = 0
    /\ loaded = NotLoaded
    /\ map_board = NewBoard
    /\ \E t \in [ClumpPositions -> {"PLAIN", "FORT", "FOREST"}], count \in 0..MaxClumpCount :
        clump = ClumpCalled(t, count, "FOREST", 7)

NextClump == ClumpEnter \/ ClumpSeed \/ ClumpGrow \/ ClumpSet

SpecClump == InitClump /\ [][NextClump]_vars /\ WF_vars(NextClump)

\* the engine with games saved and loaded back
NextSave == Move \/ Split \/ NextTurn \/ Update \/ SaveLoad

SpecSave == Init /\ [][NextSave]_vars

\* the turn cycle of a game of TurnPlayers players
InitTurn == Constructed(TurnPlayers, SmallConfig, MaxDesyncSteps)

NextTurnCycle == Move \/ Retreat \/ NextTurn \/ Update

SpecTurn == InitTurn /\ [][NextTurnCycle]_vars

\* the turn cycle of games of one to TurnPlayers players whose armies can live on
\* the food of a fort, holding a fort giving no points
InitDriven == \E n \in 1..TurnPlayers : Constructed(n, QuietConfig, MaxDesyncSteps)

SpecDriven == InitDriven /\ [][NextTurnCycle]_vars

(***************************************************************************)
(* Properties                                                              *)
(***************************************************************************)
\* C1: at every rest point every army on the board or in a roster has
\* 0 <= strength <= 100, also right after a merge whose strengths sum to more
\* than 100.
StrengthInRange ==
    \A a \in DOMAIN army : 0 <= army[a].strength /\ army[a].strength <= StrengthCap

\* C2: at every rest point every army has food >= 0; a deficit exists only inside
\* the end-of-turn processing.
FoodNonNegative == \A a \in DOMAIN army : army[a].food >= 0

\* a turn has just ended with an army that ran a deficit and survived it
StarvedArmySurvives ==
    /\ last.op = "nextTurn"
    /\ \E a \in DOMAIN army :
        /\ army[a].food = 0
        /\ army[a].strength > 0
        /\ army[a].strength < config.starting_army_size
        /\ tiles[PosOf(army[a])].type # "FORT"

\* C3: a position is a key of the registry iff some army of the board stands
\* there, and every army of the board is listed exactly once, under its own (x, y).
RegistryMatchesPositions ==
    /\ \A q \in DOMAIN armies_by_position :
        /\ armies_by_position[q] # << >>
        /\ \E a \in BoardArmies : PosOf(army[a]) = q
    /\ \A a \in BoardArmies :
        /\ PosOf(army[a]) \in DOMAIN armies_by_position
        /\ \E k \in 1..Len(armies_by_position[PosOf(army[a])]) :
                armies_by_position[PosOf(army[a])][k] = a
        /\ Cardinality({<<q, k>> \in Positions \X (1..MaxArmies) :
                            /\ q \in DOMAIN armies_by_position
                            /\ k <= Len(armies_by_position[q])
                            /\ armies_by_position[q][k] = a}) = 1

\* C4: at every rest point current_player_index names a player that is not
\* eliminated, unless all players are eliminated.
CurrentPlayerNotEliminated ==
    (\E p \in DOMAIN players : ~players[p].is_eliminated)
        => ~players[current_player_index].is_eliminated

\* the first player after i, in cyclic order, that pl does not flag eliminated
\* (i itself when it is the only one)
NextSurvivor(pl, i) ==
    LET n == Cardinality(DOMAIN pl)
        d == CHOOSE d \in 1..n :
                /\ ~pl[(i + d) % n].is_eliminated
                /\ \A c \in 1..(d - 1) : pl[(i + c) % n].is_eliminated
    IN  (i + d) % n

\* C5: nextTurn leaves current_player_index at the next non-eliminated player in
\* cyclic order after the player whose turn ended, whenever some player
\* survives the end-of-turn processing; with 3 players of which the second and
\* third are eliminated, nextTurn from the first leaves the index at the first
\* and adds 1 to turn_number.
NextTurnAdvancesToSurvivor ==
    [][(/\ last'.op = "nextTurn"
        /\ \E p \in DOMAIN players : ~players'[p].is_eliminated)
       => /\ current_player_index' = NextSurvivor(players', current_player_index)
          /\ (/\ NumPlayers = 3
              /\ current_player_index = 0
              /\ ~players'[0].is_eliminated
              /\ players'[1].is_eliminated
              /\ players'[2].is_eliminated)
                => /\ current_player_index' = 0
                   /\ turn_number' = turn_number + 1]_vars

\* C6: when every player is eliminated after the end-of-turn processing of
\* nextTurn, the call ends with game_over set and winner a player whose score is
\* the highest of all.
AllEliminatedEndsGame ==
    (last.op = "nextTurn" /\ \A p \in DOMAIN players : players[p].is_eliminated)
        => /\ game_over
           /\ winner \in DOMAIN players
           /\ \A q \in DOMAIN players : players[q].score <= players[winner].score

\* nextTurn has just eliminated the last of several players
LastPlayerEliminated ==
    /\ last.op = "nextTurn"
    /\ NumPlayers > 1
    /\ \A p \in DOMAIN players : players[p].is_eliminated

\* floor(elimination_factor x strength)
FloorOfFactorTimes(strength) ==
    (config.elimination_factor_num * strength) \div config.rate_den

\* some army of player p stands within Manhattan distance 1 of pos
HasArmyNear(p, pos) ==
    \E k \in 1..Len(players[p].armies) :
        Manhattan(PosOf(army[players[p].armies[k]]), pos) <= 1

\* the step is an update that eliminates the only army of player q and no other
SoleArmyEliminated(q) ==
    /\ last'.op = "update"
    /\ Len(players[q].armies) = 1
    /\ players'[q].armies = << >>
    /\ \A p \in DOMAIN players \ {q} :
            Len(players'[p].armies) = Len(players[p].armies)

\* C7: when update eliminates an army in combat, every other player with an army
\* within Manhattan distance 1 of it gains floor(elimination factor x S), S the
\* strength the army had before it was eliminated.
EliminationAwardsPoints ==
    [][\A q \in DOMAIN players :
        SoleArmyEliminated(q)
            => \A p \in DOMAIN players \ {q} :
                HasArmyNear(p, PosOf(army[players[q].armies[1]]))
                    => players'[p].score = players[p].score
                        + FloorOfFactorTimes(army[players[q].armies[1]].strength)]_vars

\* the number of armies on the roster of player q that stand at pos
RosterCountAt(pl, arm, q, pos) ==
    Cardinality({k \in 1..Len(pl[q].armies) : PosOf(arm[pl[q].armies[k]]) = pos})

\* the step takes an army of player q standing at pos off q's roster
LosesArmyAt(q, pos) ==
    RosterCountAt(players', army', q, pos) < RosterCountAt(players, army, q, pos)

\* C8: an elimination in update leaves unchanged the score of every player that
\* has no army within Manhattan distance 1 of the eliminated army, and gives
\* nothing to the eliminated army's own player.
EliminationSparesBystanders ==
    [][last'.op = "update"
        => \A p \in DOMAIN players :
            (\A q \in DOMAIN players \ {p}, pos \in Positions :
                LosesArmyAt(q, pos) => ~HasArmyNear(p, pos))
                => players'[p].score = players[p].score]_vars

\* an update has just eliminated the army of a player who scored nothing, in a
\* combat whose survivor stands more than one tile from every army of a third
\* player
EliminationWithoutAward ==
    /\ last.op = "update"
    /\ last.removed > 0
    /\ \E q \in DOMAIN players : players[q].armies = << >> /\ players[q].score = 0
    /\ \E a \in BoardArmies :
        /\ army[a].fought_this_turn
        /\ \E p \in DOMAIN players :
            /\ p # army[a].player_id
            /\ players[p].armies # << >>
            /\ ~HasArmyNear(p, PosOf(army[a]))

\* C9: every successful split conserves strength and food between the parent and
\* the child, and leaves both with strictly positive strength and food, also
\* after merges.
SplitConserves ==
    [][last'.op = "split"
        => \A a \in Selectable, ns \in SplitStrengths, nf \in SplitFoods,
              kg \in BOOLEAN, dest \in Dests :
            SplitArmy(a, ns, nf, kg, dest)
                => LET parent == army'[last'.army]
                       child == army'[last'.other]
                   IN  /\ child.strength + parent.strength = army[a].strength
                       /\ child.food + parent.food = army[a].food
                       /\ parent.strength > 0 /\ child.strength > 0
                       /\ parent.food > 0 /\ child.food > 0]_vars

\* C10: merge_armies(a, b) succeeds exactly when a and b have the same owner and
\* are at Manhattan distance exactly 1; then a has the sum of both strengths and
\* of both foods, a general if either had one, and is flagged moved, and b is
\* neither in the registry nor in its player's roster.
MergeAbsorbs ==
    [][last'.op \in {"merge", "rejected"}
        => \A a \in Selectable, b \in BoardArmies :
            MergeArmies(a, b)
                => /\ last'.ok <=>
                        /\ army[a].player_id = army[b].player_id
                        /\ Manhattan(PosOf(army[a]), PosOf(army[b])) = 1
                   /\ last'.ok =>
                        /\ last'.army # 0
                        /\ army'[last'.army].strength = army[a].strength + army[b].strength
                        /\ army'[last'.army].food = army[a].food + army[b].food
                        /\ army'[last'.army].has_general
                                = (army[a].has_general \/ army[b].has_general)
                        /\ army'[last'.army].moved_this_turn
                        /\ last'.other = 0]_vars

\* floor(S x (base attrition + general bonus if g)), S the attacker's aggregate
AttritionOf(cfg, s, g) ==
    (s * (cfg.base_attrition_num + (IF g THEN cfg.combat_general_bonus_num ELSE 0)))
        \div cfg.rate_den

\* the step is an update in which the only armies of players p and q, and no
\* others, meet at one tile
Duel(p, q) ==
    /\ last'.op = "update"
    /\ p # q
    /\ Len(players[p].armies) = 1
    /\ Len(players[q].armies) = 1
    /\ LET a == players[p].armies[1]
           d == players[q].armies[1]
       IN  /\ PosOf(army[a]) = PosOf(army[d])
           /\ Range(GetArmiesAt(armies_by_position, PosOf(army[a]))) = {a, d}
           /\ Len(GetArmiesAt(armies_by_position, PosOf(army[a]))) = 2

\* the strength player p's only army is left with, 0 when the roster is empty
StrengthLeft(p) ==
    IF players'[p].armies = << >> THEN 0 ELSE army'[players'[p].armies[1]].strength

RejectionChangesNothing ==
    [][last'.op = "rejected"
        => UNCHANGED <<army, armies_by_position, players, tiles,
                       current_player_index, turn_number, game_over, winner>>]_vars

\* a command has just been rejected in a game in which an army has moved
CommandRejected ==
    /\ last.op = "rejected"
    /\ ~last.ok
    /\ \E a \in BoardArmies : army[a].moved_this_turn

\* C13: game over is terminal: once game_over is true it stays true, and no later
\* command, next_turn or update changes the winner, turn_number,
\* current_player_index, a score or an army.
GameOverIsTerminal ==
    [][game_over
        => /\ game_over'
           /\ UNCHANGED <<winner, turn_number, current_player_index, army>>
           /\ \A p \in DOMAIN players : players'[p].score = players[p].score]_vars

\* the speed of the configured tier that contains the strength (1 when none
\* does), plus the general bonus for an army with a general
RangeByTier(a) ==
    LET tiers == config.movement_tiers
        T == {k \in 1..Len(tiers) : tiers[k].min <= a.strength /\ a.strength <= tiers[k].max}
    IN  (IF T = {} THEN 1 ELSE tiers[CHOOSE k \in T : \A j \in T : k <= j].speed)
            + (IF a.has_general THEN config.movement_general_bonus ELSE 0)

\* C14: move_army(army, dest) succeeds iff dest is on the board and within the
\* army's movement range (tier speed plus general bonus); then the army is at
\* dest, is flagged moved, and the registry lists it under dest and no longer
\* under the position it left.
MoveRelocates ==
    [][last'.op \in {"move", "rejected"}
        => \A a \in Selectable, dest \in Dests :
            MoveArmy(a, dest)
                => /\ last'.ok <=>
                        /\ dest \in Positions
                        /\ Manhattan(PosOf(army[a]), dest) <= RangeByTier(army[a])
                   /\ last'.ok =>
                        /\ last'.army # 0
                        /\ PosOf(army'[last'.army]) = dest
                        /\ army'[last'.army].moved_this_turn
                        /\ last'.army \in Range(GetArmiesAt(armies_by_position', dest))
                        /\ PosOf(army[a]) # dest
                            => last'.army \notin
                                Range(GetArmiesAt(armies_by_position', PosOf(army[a])))]_vars

\* C15: retreat_army(army) succeeds iff the army stands on the headquarters
\* position of its owner; then the army is gone from the registry and from its
\* player's roster, and no other army, no score and no turn variable changes.
RetreatRemovesOnlyTheArmy ==
    [][last'.op \in {"retreat", "rejected"}
        => \A a \in Selectable :
            RetreatArmy(a)
                => /\ last'.ok <=>
                        PosOf(army[a]) = players[army[a].player_id].headquarters_position
                   /\ last'.ok =>
                        /\ last'.army = 0
                        /\ last'.removed = 1
                        /\ \E ren \in [DOMAIN army' -> DOMAIN army \ {a}] :
                            /\ \A i, j \in DOMAIN army' : i # j => ren[i] # ren[j]
                            /\ \A i \in DOMAIN army' : army'[i] = army[ren[i]]
                        /\ Cardinality(DOMAIN army') = Cardinality(DOMAIN army) - 1
                        /\ \A p \in DOMAIN players : players'[p].score = players[p].score
                        /\ UNCHANGED <<current_player_index, turn_number, game_over,
                                       winner>>]_vars

\* the armies of a roster, as records
RosterArmies(arm, roster) == {arm[roster[k]] : k \in 1..Len(roster)}

\* C16: saving a game and loading the saved document gives a game equal to the
\* saved one in its tiles, turn_number, current_player_index, game_over, winner,
\* every player's score, headquarters, eliminated flag and set of armies, and a
\* registry that holds exactly those armies.
SaveLoadRoundTrip ==
    [][last'.op = "load"
        => /\ loaded'.status = "loaded"
           /\ LET g == loaded'.game
              IN  /\ g.tiles = tiles
                  /\ g.turn_number = turn_number
                  /\ g.current_player_index = current_player_index
                  /\ g.game_over = game_over
                  /\ g.winner = winner
                  /\ DOMAIN g.players = DOMAIN players
                  /\ \A p \in DOMAIN players :
                        /\ g.players[p].score = players[p].score
                        /\ g.players[p].headquarters_position
                                = players[p].headquarters_position
                        /\ g.players[p].is_eliminated = players[p].is_eliminated
                        /\ RosterArmies(g.army, g.players[p].armies)
                                = RosterArmies(army, players[p].armies)
                  /\ RegistrySize(g.reg) = Len(RosterOrder(g.players, 0))
                  /\ Range(RegistryOrder(g.reg, 0)) = Range(RosterOrder(g.players, 0))]_vars

\* position p lies in the region reg
InRegion(p, reg) ==
    /\ reg.xs <= p[1] /\ p[1] < reg.xe
    /\ reg.ys <= p[2] /\ p[2] < reg.ye

\* C17: whatever the random draws, generate_random_map with fort_count = 5 on a
\* 20 x 20 board leaves exactly 5 FORT tiles at 5 pairwise distinct positions:
\* each fort position lies in a region of its own, the regions do not overlap,
\* and after the forest, mountain and river passes every fort position still
\* holds a FORT tile.
FortsSurviveGeneration ==
    map_board.generations > 0 =>
        LET forts == map_board.fort_positions
            regs == FortRegionsOn(MapWidth, MapHeight, FortCount)
            placed == Range(forts)
            board == map_board.tiles
        IN  /\ Len(forts) = FortCount
            /\ \A j, k \in 1..Len(forts) : j # k => forts[j] # forts[k]
            /\ \A k \in 1..Len(forts) : InRegion(forts[k], regs[k])
            /\ \A j, k \in 1..Len(forts) : j # k => ~InRegion(forts[j], regs[k])
            /\ Cardinality(placed) = FortCount
            /\ \A p \in MapPositions : board[p] = "FORT" <=> p \in placed

\* a map whose river runs along the row of a fort, on both sides of it, and
\* which has a forest tile next to that fort
RiverCrossesFort ==
    /\ map_board.generations > 0
    /\ \E k \in 1..Len(map_board.fort_positions) :
        LET f == map_board.fort_positions[k]
        IN  /\ map_board.tiles[f] = "FORT"
            /\ map_board.tiles[<<f[1] - 1, f[2]>>] = "RIVER"
            /\ map_board.tiles[<<f[1] + 1, f[2]>>] = "RIVER"
            /\ \E a \in GetAdjacentPositions(f) : map_board.tiles[a] = "FOREST"

\* the players that are not eliminated
Survivors(pl) == {p \in DOMAIN pl : ~pl[p].is_eliminated}

\* C18: a nextTurn call made while the game is on sets game_over only if, after
\* its end-of-turn processing, every player is eliminated or the turn_number it
\* has incremented exceeds the turn limit; when two or more players are not
\* eliminated and the turn limit is not exceeded, it leaves game_over false.
NextTurnEndsGameOnlyWhenDue ==
    [][(last'.op = "nextTurn" /\ ~game_over)
        => LET over_limit == /\ turn_number' = turn_number + 1
                             /\ turn_number' > config.turn_limit
           IN  /\ game_over' => (Survivors(players') = {} \/ over_limit)
               /\ (/\ Cardinality(Survivors(players')) >= 2
                   /\ turn_number' <= config.turn_limit)
                    => ~game_over']_vars

\* C19: turn_number starts at 1 and never decreases; a nextTurn call in which the
\* turn order wraps around the end of the player list (the new index is not
\* after the old one) adds exactly 1 to it, whichever players are eliminated,
\* and ends the game when the new turn_number exceeds the turn limit; a nextTurn
\* call that does not wrap, and every other call, leaves turn_number as it is.
TurnNumberCountsRounds ==
    /\ turn_number = 1
    /\ [][/\ turn_number' >= turn_number
          /\ last'.op = "nextTurn"
                => LET wraps == current_player_index' <= current_player_index
                   IN  /\ turn_number' = IF wraps THEN turn_number + 1 ELSE turn_number
                       /\ (wraps /\ turn_number' > config.turn_limit) => game_over'
          /\ last'.op # "nextTurn" => turn_number' = turn_number]_vars

\* C20: after a nextTurn call, every army of the player whose turn ended that
\* stands on that player's headquarters position has food equal to the
\* configured starting food (nextTurn moves no army, so these are the armies
\* that stood there when the turn ended and are still on the board).
HeadquartersResupplies ==
    [][last'.op = "nextTurn"
        => LET p == current_player_index
           IN  \A k \in 1..Len(players'[p].armies) :
                    LET a == army'[players'[p].armies[k]]
                    IN  PosOf(a) = players'[p].headquarters_position
                            => a.food = config.starting_food]_vars

\* the game as the end-of-turn processing of the current player leaves it, the
\* armies under the names they have before the call
EndOfTurnResult ==
    ProcessEndOfTurn(config, tiles, current_player_index,
                     [army |-> army, reg |-> armies_by_position, players |-> players])

\* the armies of a roster, as records in roster order
RosterRecords(arm, roster) == [k \in 1..Len(roster) |-> arm[roster[k]]]

\* the consumption amount of army record a: combat if it moved and fought,
\* moving if it moved without fighting, stationary otherwise
ConsumptionDue(a) ==
    IF a.moved_this_turn /\ a.fought_this_turn THEN config.consumption_combat
    ELSE IF a.moved_this_turn THEN config.consumption_moving
    ELSE config.consumption_stationary

\* the food army record a ends the turn with once its consumption amount is
\* subtracted: no less than 0, plus the food of a fort it stands on
FoodAfterConsumption(a) ==
    LET left == a.food - ConsumptionDue(a)
    IN  (IF left <= 0 THEN 0 ELSE left)
            + (IF tiles[PosOf(a)].type = "FORT" THEN config.fort_food_generation ELSE 0)

\* C21: nextTurn subtracts one consumption amount (combat, moving or stationary,
\* by what the army did this turn) from the food of every army of the player
\* whose turn ends: each army that player still owns after the call, standing
\* off its headquarters, has the food that subtraction leaves, also when another
\* army of the player is removed during the same processing.
ConsumptionCharged ==
    [][last'.op = "nextTurn"
        => LET p == current_player_index
               w1 == EndOfTurnResult
           IN  /\ RosterRecords(army', players'[p].armies)
                    = RosterRecords(w1.army, w1.players[p].armies)
               /\ \A k \in 1..Len(w1.players[p].armies) :
                    LET a == w1.players[p].armies[k]
                    IN  PosOf(army[a]) # players[p].headquarters_position
                            => w1.army[a].food = FoodAfterConsumption(army[a])]_vars

\* C22: after nextTurn every army still owned by the player whose turn ended
\* has moved_this_turn and fought_this_turn false, whatever the size of the
\* roster and whichever armies the processing removed.
FlagsResetAtEndOfTurn ==
    [][last'.op = "nextTurn"
        => \A k \in 1..Len(players'[current_player_index].armies) :
                LET a == army'[players'[current_player_index].armies[k]]
                IN  ~a.moved_this_turn /\ ~a.fought_this_turn]_vars

\* the strength army record a has left once its consumption is subtracted: a
\* food of 0 or less costs the deficit and 1, no more than the army has
StrengthAfterConsumption(a) ==
    LET left == a.food - ConsumptionDue(a)
    IN  IF left <= 0
        THEN a.strength - (IF Abs(left) + 1 < a.strength THEN Abs(left) + 1 ELSE a.strength)
        ELSE a.strength

OwnersAt(arm, reg, q) ==
    {arm[GetArmiesAt(reg, q)[k]].player_id : k \in 1..Len(GetArmiesAt(reg, q))}

\* the total strength of the armies of player p the registry lists at position q
GroupStrengthAt(arm, reg, p, q) ==
    SumStrength(arm, GroupOf(arm, GetArmiesAt(reg, q), p), 1)

\* one of the armies of player p the registry lists at position q has a general
GroupHasGeneral(arm, reg, p, q) ==
    \E k \in 1..Len(GetArmiesAt(reg, q)) :
        /\ arm[GetArmiesAt(reg, q)[k]].player_id = p
        /\ arm[GetArmiesAt(reg, q)[k]].has_general

\* C24: when update applies damage D to the armies of a defending player at a
\* contact position, whose strengths sum to T, those armies lose min(D, T)
\* strength in total: at a position held by two players, each player's armies
\* there end the update with T - min(D, T), D being the damage of the other
\* player's armies there.
DamageFullyApplied ==
    [][last'.op = "update"
        => \A q \in DOMAIN armies_by_position :
            \A att, def \in OwnersAt(army, armies_by_position, q) :
                (/\ att # def
                 /\ OwnersAt(army, armies_by_position, q) = {att, def})
                => LET T == GroupStrengthAt(army, armies_by_position, def, q)
                       D == AttritionOf(config,
                                GroupStrengthAt(army, armies_by_position, att, q),
                                GroupHasGeneral(army, armies_by_position, att, q))
                   IN  GroupStrengthAt(army', armies_by_position', def, q)
                            = T - (IF D < T THEN D ELSE T)]_vars

\* C25: nextTurn marks the player whose turn ends eliminated if and only if that
\* player owns no army once its armies are processed, and changes the flag of no
\* other player; move, split, merge, retreat and update change no player's
\* flag, even when they take a player's last army.
EliminatedOnlyAtEndOfTurn ==
    [][/\ last'.op = "nextTurn"
            => /\ ~players[current_player_index].is_eliminated
                    => (players'[current_player_index].is_eliminated
                            <=> players'[current_player_index].armies = << >>)
               /\ \A q \in DOMAIN players \ {current_player_index} :
                    players'[q].is_eliminated = players[q].is_eliminated
       /\ last'.op # "nextTurn"
            => \A q \in DOMAIN players :
                    players'[q].is_eliminated = players[q].is_eliminated]_vars

\* a retreat or the combat of an update has just taken the last army of a
\* player, who is not marked eliminated
LastArmyGoneUnflagged ==
    /\ last.op \in {"retreat", "update"}
    /\ last.removed >= 1
    /\ \E q \in DOMAIN players : players[q].armies = << >> /\ ~players[q].is_eliminated

\* the fort tiles on which an army stands and every army standing belongs to
\* player p, in the game as the call leaves it
FortsHeldAfter(p) ==
    {q \in Positions :
        /\ tiles[q].type = "FORT"
        /\ \E a \in DOMAIN army' : PosOf(army'[a]) = q
        /\ \A a \in DOMAIN army' : PosOf(army'[a]) = q => army'[a].player_id = p}

\* C26: nextTurn adds the fort-control bonus to the score of the player whose
\* turn ends once for each fort tile on which at least one army stands and all
\* armies standing belong to that player, counted after that player's armies are
\* processed and the starved ones removed; empty forts and forts with an army of
\* another player add nothing, and no other player's score changes.
FortControlScored ==
    [][last'.op = "nextTurn"
        => /\ players'[current_player_index].score
                = players[current_player_index].score
                    + config.fort_control * Cardinality(FortsHeldAfter(current_player_index))
           /\ \A q \in DOMAIN players \ {current_player_index} :
                players'[q].score = players[q].score]_vars

\* nextTurn has just ended the turn of a player who holds a fort alone and has
\* scored, while another fort is empty
FortHeldAndScored ==
    /\ last.op = "nextTurn"
    /\ \E q \in Positions, p \in DOMAIN players :
        /\ tiles[q].type = "FORT"
        /\ \E a \in DOMAIN army : PosOf(army[a]) = q
        /\ \A a \in DOMAIN army : PosOf(army[a]) = q => army[a].player_id = p
        /\ players[p].score > 0
    /\ \E q \in Positions :
        /\ tiles[q].type = "FORT"
        /\ \A a \in DOMAIN army : PosOf(army[a]) # q

\* C27: after update, game_over is true if and only if it was true before the
\* call, or at most one player is not eliminated, or turn_number exceeds the
\* turn limit.
UpdateChecksGameOver ==
    [][last'.op = "update"
        => (game_over' <=> \/ game_over
                           \/ Cardinality(Survivors(players')) <= 1
                           \/ turn_number' > config.turn_limit)]_vars

\* an update has just ended a game of two players within the turn limit, one
\* player being left
UpdateEndedGame ==
    /\ last.op = "update"
    /\ game_over
    /\ NumPlayers >= 2
    /\ Cardinality(Survivors(players)) = 1
    /\ turn_number <= config.turn_limit

\* C28: at every rest point at which game_over is true, winner is set and no
\* player has a score strictly higher than the winner's score.
WinnerLeadsWhenGameOver ==
    game_over
        => /\ winner # NoPlayer
           /\ \A p \in DOMAIN players : players[p].score <= players[winner].score

\* C29: after update, every army that stood at a contact position (a position
\* with armies of two or more players) when update began and that is still on
\* the board has fought_this_turn = TRUE. update moves no army, so the armies
\* the registry lists at such a position afterwards are the ones still standing.
ContactArmiesHaveFought ==
    [][last'.op = "update"
        => \A q \in Positions :
            IsContact(armies_by_position, army, q)
                => \A k \in 1..Len(GetArmiesAt(armies_by_position', q)) :
                       army'[GetArmiesAt(armies_by_position', q)[k]].fought_this_turn]_vars

\* an update has just been fought at a position where armies of two players,
\* three armies or more, are still standing
FoughtAndStanding ==
    /\ last.op = "update"
    /\ \E q \in DOMAIN armies_by_position :
        /\ Cardinality(OwnersAt(army, armies_by_position, q)) >= 2
        /\ Len(armies_by_position[q]) >= 3
        /\ \A k \in 1..Len(armies_by_position[q]) :
               army[armies_by_position[q][k]].fought_this_turn

\* C30: on a successful split_army(army, new_strength, new_food, keep_general,
\* dest), dest is on the board at Manhattan distance exactly 1 from the parent,
\* the child is at dest with the parent's owner and is in the registry and in
\* that owner's roster, the child has a general exactly when keep_general is set
\* and the parent had one, the parent keeps its general exactly when it had one
\* and keep_general is not set, and both armies are flagged moved.
SplitPlacesChild ==
    [][last'.op = "split"
        => \A a \in Selectable, ns \in SplitStrengths, nf \in SplitFoods,
              kg \in BOOLEAN, dest \in Dests :
            SplitArmy(a, ns, nf, kg, dest)
                => LET parent == army'[last'.army]
                       child == army'[last'.other]
                       owner == army[a].player_id
                   IN  /\ IsValidPosition(dest)
                       /\ Manhattan(dest, PosOf(army[a])) = 1
                       /\ PosOf(child) = dest
                       /\ child.player_id = owner
                       /\ last'.other \in Range(GetArmiesAt(armies_by_position', dest))
                       /\ last'.other \in Range(players'[owner].armies)
                       /\ child.has_general = (kg /\ army[a].has_general)
                       /\ parent.has_general = (army[a].has_general /\ ~kg)
                       /\ parent.moved_this_turn
                       /\ child.moved_this_turn]_vars

\* a split has just sent the general of the parent away with the child
GeneralSentWithChild ==
    /\ last.op = "split"
    /\ army[last.other].has_general
    /\ ~army[last.army].has_general
    /\ army[last.other].player_id = army[last.army].player_id
    /\ Manhattan(PosOf(army[last.other]), PosOf(army[last.army])) = 1

\* C31: clustered-terrain generation terminates for every board, target count
\* and set of protected tiles: the seed loop ends, and the growth loop stops
\* once the set has the target count or no member has an eligible neighbour.
ClumpedTerrainTerminates == <>(clump.phase = "returned")

\* C32: after any sequence of commands the army entities the board registry
\* references are exactly those of the players' rosters, and each army is
\* listed once, in the roster of the player its player_id names, also when two
\* armies of one player have equal field values.
RegistryAndRostersAgree ==
    LET ro == RegistryOrder(armies_by_position, 0)
        po == RosterOrder(players, 0)
    IN  /\ Range(ro) = Range(po)
        /\ Len(po) = Cardinality(Range(po))
        /\ \A i \in DOMAIN players :
                \A k \in 1..Len(players[i].armies) :
                    army[players[i].armies[k]].player_id = i

\* the game as next_turn and update see it
Situation ==
    [army |-> army, reg |-> armies_by_position, players |-> players,
     index |-> current_player_index, turn |-> turn_number, over |-> game_over]

\* the situation next_turn leaves
AfterNextTurn(s) ==
    LET w1 == ProcessEndOfTurn(config, tiles, s.index,
                    [army |-> s.army, reg |-> s.reg, players |-> s.players])
        skip == SkipEliminated(w1.players, (s.index + 1) % NumPlayers)
        wrapped == skip.index = 0
        turn1 == IF wrapped THEN s.turn + 1 ELSE s.turn
        limit == wrapped /\ turn1 > config.turn_limit
    IN  [army |-> w1.army, reg |-> w1.reg, players |-> w1.players,
         index |-> skip.index, turn |-> turn1,
         over |-> (s.over \/ skip.over \/ limit)]

\* the situation update leaves
AfterUpdate(s) ==
    LET w1 == ResolveCombat(config,
                    [army |-> s.army, reg |-> s.reg, players |-> s.players])
    IN  [army |-> w1.army, reg |-> w1.reg, players |-> w1.players,
         index |-> s.index, turn |-> s.turn,
         over |-> (s.over \/ GameOverCondition(config, w1.players, s.turn))]

\* next_turn followed by update, called again and again from the situation s,
\* ends the game: the calls are deterministic, so they fail to do so exactly
\* when a situation comes back with the game not over
RECURSIVE DrivenToGameOver(_, _)
DrivenToGameOver(s, seen) ==
    IF s.over THEN TRUE
    ELSE IF s \in seen THEN FALSE
    ELSE DrivenToGameOver(AfterUpdate(AfterNextTurn(s)), seen \cup {s})

\* C33: when next_turn followed by update goes on being called, from any
\* reachable state and under a finite turn limit, the game eventually has
\* game_over = TRUE, whatever the number of players and whichever players are
\* eliminated, player 0 with two or more others left included.
GameEventuallyOver == DrivenToGameOver(Situation, {})

\* C34: at every rest point after next_turn or update, no army of strength <= 0
\* is in the board registry or in a roster: every army in play has strength >= 1.
NoDeadArmyInPlay ==
    last.op \in {"nextTurn", "update"}
        => /\ \A q \in DOMAIN armies_by_position :
                \A k \in 1..Len(armies_by_position[q]) :
                    army[armies_by_position[q][k]].strength >= 1
           /\ \A i \in DOMAIN players :
                \A k \in 1..Len(players[i].armies) :
                    army[players[i].armies[k]].strength >= 1

\* the number of armies of player i, among the army entities arm, with a general
GeneralsOf(arm, i) ==
    Cardinality({a \in DOMAIN arm : arm[a].player_id = i /\ arm[a].has_general})

\* C35: no move, split, merge, retreat, next_turn or update increases the
\* number of armies with a general a player owns; from the set-up, with one
\* such army per player, each player has at most one at every rest point. The
\* armies counted are those the registry or a roster references.
GeneralsNeverMultiply ==
    /\ \A i \in DOMAIN players : GeneralsOf(army, i) <= 1
    /\ [][\A i \in DOMAIN players : GeneralsOf(army', i) <= GeneralsOf(army, i)]_vars

\* C36: elimination is permanent and consistent: no operation clears a
\* player's is_eliminated flag, and at every rest point an eliminated player
\* has an empty roster and no army with its id is on the board.
EliminationIsFinal ==
    /\ [](\A i \in DOMAIN players :
            players[i].is_eliminated
                => /\ players[i].armies = << >>
                   /\ \A q \in DOMAIN armies_by_position :
                        \A k \in 1..Len(armies_by_position[q]) :
                            army[armies_by_position[q][k]].player_id # i)
    /\ [][\A i \in DOMAIN players :
            players[i].is_eliminated => players'[i].is_eliminated]_vars

\* the game as the combat of update leaves it, the armies under the names they
\* have before the call
CombatResult ==
    ResolveCombat(config, [army |-> army, reg |-> armies_by_position, players |-> players])

\* the armies a registry lists
ListedIn(reg) == UNION {Range(reg[q]) : q \in DOMAIN reg}

\* the armies the registry lists at position q, as records in list order
RecordsAt(arm, reg, q) == RosterRecords(arm, GetArmiesAt(reg, q))

\* C37: update changes only armies standing at contact positions (strength,
\* fought_this_turn, presence), the scores of players with an army within
\* Manhattan distance 1 of an eliminated army, and game_over and winner; armies
\* at other positions, every army's position, food, general and
\* moved_this_turn, the tiles, current_player_index, turn_number and the
\* eliminated flags are unchanged.
UpdateFrame ==
    [][last'.op = "update"
        => LET w1 == CombatResult
               contact(q) == IsContact(armies_by_position, army, q)
               gone == {e \in BoardArmies : e \notin ListedIn(w1.reg)}
           IN  /\ \A q \in Positions :
                    RecordsAt(army', armies_by_position', q) = RecordsAt(w1.army, w1.reg, q)
               /\ \A i \in DOMAIN players :
                    RosterRecords(army', players'[i].armies)
                        = RosterRecords(w1.army, w1.players[i].armies)
               /\ \A q \in DOMAIN armies_by_position :
                    ~contact(q) => /\ GetArmiesAt(w1.reg, q) = armies_by_position[q]
                                   /\ \A k \in 1..Len(armies_by_position[q]) :
                                        w1.army[armies_by_position[q][k]]
                                            = army[armies_by_position[q][k]]
               /\ ListedIn(w1.reg) \subseteq BoardArmies
               /\ \A a \in ListedIn(w1.reg) :
                    /\ PosOf(w1.army[a]) = PosOf(army[a])
                    /\ w1.army[a].food = army[a].food
                    /\ w1.army[a].has_general = army[a].has_general
                    /\ w1.army[a].moved_this_turn = army[a].moved_this_turn
                    /\ w1.army[a].player_id = army[a].player_id
               /\ \A i \in DOMAIN players :
                    /\ Range(w1.players[i].armies) = Range(players[i].armies) \ gone
                    /\ players'[i].is_eliminated = players[i].is_eliminated
                    /\ players'[i].headquarters_position = players[i].headquarters_position
                    /\ players'[i].score # players[i].score
                        => \E e \in gone :
                              \E k \in 1..Len(players[i].armies) :
                                 Manhattan(PosOf(army[players[i].armies[k]]),
                                           PosOf(army[e])) <= 1
               /\ UNCHANGED <<tiles, config, current_player_index, turn_number>>]_vars

\* an update has just been fought while an army of the game stood elsewhere
FoughtWithBystander ==
    /\ last.op = "update"
    /\ \E a, b \in BoardArmies :
        /\ army[a].fought_this_turn
        /\ ~army[b].fought_this_turn
        /\ PosOf(army[a]) # PosOf(army[b])

\* C38: next_turn changes the strength, food, per-turn flags and membership
\* only of armies of the player whose turn ends, and only that player's score
\* and eliminated flag; the armies, score and flag of every other player, every
\* army's position and every tile are unchanged.
NextTurnFrame ==
    [][last'.op = "nextTurn"
        => LET w1 == EndOfTurnResult
               p == current_player_index
               others(lst) == SelectSeq(lst, LAMBDA a : army[a].player_id # p)
           IN  /\ \A q \in Positions :
                    RecordsAt(army', armies_by_position', q) = RecordsAt(w1.army, w1.reg, q)
               /\ \A i \in DOMAIN players :
                    RosterRecords(army', players'[i].armies)
                        = RosterRecords(w1.army, w1.players[i].armies)
               /\ \A q \in Positions :
                    others(GetArmiesAt(w1.reg, q)) = others(GetArmiesAt(armies_by_position, q))
               /\ \A a \in BoardArmies : army[a].player_id # p => w1.army[a] = army[a]
               /\ ListedIn(w1.reg) \subseteq BoardArmies
               /\ \A a \in ListedIn(w1.reg) :
                    /\ PosOf(w1.army[a]) = PosOf(army[a])
                    /\ w1.army[a].player_id = army[a].player_id
               /\ \A i \in DOMAIN players \ {p} :
                    /\ w1.players[i] = players[i]
                    /\ players'[i].score = players[i].score
                    /\ players'[i].is_eliminated = players[i].is_eliminated
               /\ UNCHANGED tiles]_vars

\* a next_turn has just removed an army of the player whose turn ended and
\* passed the turn to the other player of the game, who has an army
OthersUntouchedByStarvation ==
    /\ last.op = "nextTurn"
    /\ last.removed >= 1
    /\ NumPlayers = 2
    /\ \A i \in DOMAIN players : ~players[i].is_eliminated
    /\ \E a \in BoardArmies : army[a].player_id = current_player_index
\* the orders in which the owners of the armies at a position can be taken
PairOrders(owners) ==
    {o \in [1..Len(owners) -> Range(owners)] : Range(o) = Range(owners)}

\* _process_combat_at_position with the (attacker, defender) pairs taken in the
\* order o of the owners
CombatInOrder(cfg, w, armies, o) ==
    LET owners == OwnersOf(w.army, armies)
        groups == [p \in Range(owners) |-> GroupOf(w.army, armies, p)]
        str == [p \in Range(owners) |-> SumStrength(w.army, groups[p], 1)]
        gen == [p \in Range(owners) |->
                    \E k \in 1..Len(groups[p]) : w.army[groups[p][k]].has_general]
    IN  CombatPairs(cfg, w, o, groups, str, gen, 0)

\* C39: the damage a player receives at a contact position in one update does
\* not depend on the order in which the (attacker, defender) pairs are
\* processed: the armies of each player there end the update with the total
\* strength they would have had with the pairs taken in any other order.
DamageOrderIndependent ==
    [][last'.op = "update"
        => \A q \in DOMAIN armies_by_position :
            IsContact(armies_by_position, army, q)
            => LET w == [army |-> army, reg |-> armies_by_position, players |-> players]
                   armies == GetArmiesAt(armies_by_position, q)
               IN  \A o \in PairOrders(OwnersOf(army, armies)) :
                    \A p \in OwnersAt(army, armies_by_position, q) :
                        GroupStrengthAt(army', armies_by_position', p, q)
                            = SumStrength(CombatInOrder(config, w, armies, o).army,
                                          GroupOf(army, armies, p), 1)]_vars

\* the call just made was one that runs _determine_winner: an update that finds
\* a game-over condition, or a next_turn that comes back to player 0 with every
\* later player eliminated or the turn limit passed
WinnerDetermined ==
    \/ /\ last'.op = "update"
       /\ GameOverCondition(config, players', turn_number')
    \/ /\ last'.op = "nextTurn"
       /\ current_player_index' = 0
       /\ \/ turn_number' > config.turn_limit
          \/ SkipEliminated(players', (current_player_index + 1) % NumPlayers).over

\* C40: whenever the winner is determined, the game is over and the winner is
\* the lowest-indexed of the players whose score is the highest of all players,
\* eliminated ones included; it is never left unset.
WinnerIsFirstLeader ==
    [][WinnerDetermined
        => /\ game_over'
           /\ winner' \in DOMAIN players
           /\ \A j \in DOMAIN players : players'[j].score <= players'[winner'].score
           /\ \A j \in DOMAIN players :
                j < winner' => players'[j].score < players'[winner'].score]_vars

\* an update has found the game over with two players whose scores are equal
\* and not zero: the first player is the winner
TieGoesToFirst ==
    /\ last.op = "update"
    /\ game_over
    /\ GameOverCondition(config, players, turn_number)
    /\ NumPlayers = 2
    /\ players[0].score = players[1].score
    /\ players[0].score > 0
    /\ winner = 0

====
